---------------------------- MODULE Spec2Model ----------------------------
(***************************************************************************)
(* The form state and validation engine of the shorms renderer:            *)
(*   useFormState   (components/shorms/renderer/index.ts, 97-638)          *)
(*   useValidation  (components/shorms/renderer/index.ts, 675-1074)        *)
(*   Renderer       (unnamed/part_009)                                     *)
(*                                                                         *)
(* JavaScript objects are records whose DOMAIN is the set of keys that are *)
(* present: `o.k !== undefined` is `"k" \in DOMAIN o`.  JavaScript values  *)
(* (string | number | undefined | null) are tagged records, so that TLA+   *)
(* equality is `===` on them; NaN is not in the value domain.  A string is *)
(* the sequence of its characters.                                         *)
(***************************************************************************)
EXTENDS Integers, Sequences, FiniteSets, TLC

VARIABLES
    values,             \* FormStateInternal.values
    initialValues,      \* FormStateInternal.initialValues
    dirtyFields,        \* FormStateInternal.dirtyFields
    history,            \* FormStateInternal.history
    historyIndex,       \* FormStateInternal.historyIndex
    userEditedFields,   \* FormStateInternal.metadata.userEditedFields
    aiAssistedFields,   \* FormStateInternal.metadata.aiAssistedFields
    validations,        \* FormStateInternal.validations
    suggestions,        \* FormStateInternal.suggestions
    lastSaved,          \* FormStateInternal.lastSavedAt and lastSavedValues
    maxHistorySize,     \* UseFormStateOptions.maxHistorySize
    currentPageIndex,   \* Renderer: useState(0)
    cache,              \* useValidation: cacheRef
    pending,            \* useValidation: pendingRef (keys with a promise in flight)
    tasks,              \* handlers suspended at an await, oldest first
    hungChanges,        \* fields with a handleFieldChange whose promise can no longer resolve
    lastOp,             \* the last operation that ran, with what it called out to
    suggestPending,     \* useSuggestions: pendingRef (fields with onSuggest in flight)
    suggestTasks,       \* suggestion requests suspended at an await, oldest first
    currentJob,         \* useBackgroundJob: currentJob
    pollTimer,          \* useBackgroundJob: pollTimerRef (the job the interval polls)
    processedUpdates,   \* useBackgroundJob: processedUpdatesRef
    isBlocking,         \* useBackgroundJob: isBlocking
    jobCalls,           \* onBulkSuggest / onJobProgress / onJobCancel promises in flight
    saveCalls,          \* onSaveDraft promises in flight
    props,              \* Renderer props: initialJobId, backgroundJobs.blocking
    probe,              \* input of a pure validation function under test
    ret                 \* what that function returned

storeVars == <<values, initialValues, dirtyFields, history, historyIndex,
               userEditedFields, aiAssistedFields, validations, suggestions,
               lastSaved, maxHistorySize>>

engineVars == <<currentPageIndex, cache, pending, tasks, hungChanges>>

hookVars == <<suggestPending, suggestTasks, currentJob, pollTimer,
              processedUpdates, isBlocking, jobCalls, saveCalls, props>>

probeVars == <<probe, ret>>

vars == <<storeVars, engineVars, hookVars, lastOp, probeVars>>

-----------------------------------------------------------------------------
(* JavaScript values *)

Str(s) == [t |-> "string", s |-> s, n |-> 0]
Num(n) == [t |-> "number", s |-> <<>>, n |-> n]
Undefined == [t |-> "undefined", s |-> <<>>, n |-> 0]
Null == [t |-> "null", s |-> <<>>, n |-> 0]
emptyString == Str(<<>>)

Digits == {"0", "1", "2", "3", "4", "5", "6", "7", "8", "9"}
Whitespace == {" "}
LowerCase == {"a", "b", "c", "d", "e", "f", "g", "h", "i", "j", "k", "l", "m",
              "n", "o", "p", "q", "r", "s", "t", "u", "v", "w", "x", "y", "z"}

\* obj[key], undefined when the key is absent
Get(obj, key) == IF key \in DOMAIN obj THEN obj[key] ELSE Undefined


\* the outcomes a validate / validateAsync / cross-field callback may return:
\* true | string | ValidationResult (a record with a "valid" key)
JSTrue == [literal |-> TRUE]
JSString(m) == [string |-> m]

-----------------------------------------------------------------------------
(* The regular expressions and the URL parser runSyncValidation calls *)

AllIn(s, from, to, class) == \A k \in from..to : s[k] \in class

\* /^[^\s@]+@[^\s@]+\.[^\s@]+$/.test(s)
emailRegexTest(s) ==
    \E i \in 2..Len(s), j \in 4..(Len(s) - 1) :
        /\ i + 1 < j
        /\ s[i] = "@"
        /\ s[j] = "."
        /\ \A k \in 1..Len(s) : k # i => s[k] \notin (Whitespace \cup {"@"})

\* /^[\d\s\-\+\(\)]+$/.test(s)
phoneRegexTest(s) ==
    /\ Len(s) >= 1
    /\ AllIn(s, 1, Len(s), Digits \cup Whitespace \cup {"-", "+", "(", ")"})

\* s.replace(/\D/g, '').length
DigitCount(s) == Cardinality({k \in 1..Len(s) : s[k] \in Digits})

\* new RegExp(pattern).test(s), for the pattern sources the schemas here use
RegExpTest(pattern, s) ==
    CASE pattern = "^[a-z]+$" -> Len(s) >= 1 /\ AllIn(s, 1, Len(s), LowerCase)
      [] pattern = "^[0-9]+$" -> Len(s) >= 1 /\ AllIn(s, 1, Len(s), Digits)
      [] OTHER -> FALSE

SpecialSchemes == {<<"h", "t", "t", "p">>, <<"h", "t", "t", "p", "s">>,
                   <<"f", "t", "p">>, <<"w", "s">>, <<"w", "s", "s">>}

\* whether `new URL(s)` returns rather than throws: a scheme (a letter, then
\* letters, digits, + - .) up to the first colon; a special scheme also needs a
\* non-empty host after its slashes
URLParses(s) ==
    \E i \in 2..Len(s) :
        /\ s[i] = ":"
        /\ s[1] \in LowerCase
        /\ AllIn(s, 2, i - 1, LowerCase \cup Digits \cup {"+", "-", "."})
        /\ SubSeq(s, 1, i - 1) \in SpecialSchemes =>
              \E h \in (i + 1)..Len(s) :
                  /\ AllIn(s, i + 1, h - 1, {"/"})
                  /\ s[h] \notin ({"/", "?", "#", ":"} \cup Whitespace)
                  /\ AllIn(s, h, Len(s), LowerCase \cup Digits \cup {".", "-", "/"})

-----------------------------------------------------------------------------
(* Host callbacks: the functions a schema carries, named by a tag *)

\* FieldValidation.validate(value, allValues)
ApplyValidate(tag, value, allValues) ==
    CASE tag = "notX" ->
            IF value = Str(<<"x">>) THEN JSString("x is not allowed") ELSE JSTrue
      [] tag = "warnShort" ->
            IF value.t = "string" /\ Len(value.s) < 3
            THEN [valid |-> FALSE, message |-> "Looks short", severity |-> "warning"]
            ELSE JSTrue
      [] tag = "bare" ->
            IF value.t = "string" /\ Len(value.s) < 3
            THEN [valid |-> FALSE, message |-> "Too short"]
            ELSE [valid |-> TRUE]
      [] OTHER -> JSTrue

-----------------------------------------------------------------------------
(* useValidation: the pure part *)

normalizeResult(result) ==
    IF result = JSTrue
    THEN [valid |-> TRUE]
    ELSE IF "string" \in DOMAIN result
    THEN [valid |-> FALSE, message |-> result.string,
          severity |-> "error", blocking |-> TRUE]
    ELSE ("severity" :> (IF "severity" \in DOMAIN result
                         THEN result.severity ELSE "error"))
         @@ ("blocking" :> (IF "blocking" \in DOMAIN result
                            THEN result.blocking
                            ELSE ("severity" \in DOMAIN result
                                  /\ result.severity = "error")))
         @@ result

Failure(message) ==
    [valid |-> FALSE, message |-> message, severity |-> "error", blocking |-> TRUE]

isEmpty(value) == value = Undefined \/ value = Null \/ value = emptyString

tooShort(field, value) ==
    /\ value.t = "string"
    /\ "minLength" \in DOMAIN field.validation
    /\ Len(value.s) < field.validation.minLength

requiredMessage(field) == field.label \o " is required"

minLengthMessage(field) ==
    "Minimum " \o ToString(field.validation.minLength) \o " characters required"

\* runSyncValidation from the maximum-length check on (772-864)
checksAfterMinLength(field, value, allValues) ==
    LET validation == field.validation
        has(k) == k \in DOMAIN validation
        isString == value.t = "string"
        isNumber == value.t = "number"
    IN
    IF isString /\ has("maxLength") /\ Len(value.s) > validation.maxLength
    THEN Failure("Maximum " \o ToString(validation.maxLength)
                   \o " characters allowed")
    ELSE IF isNumber /\ has("min") /\ value.n < validation.min
    THEN Failure("Minimum value is " \o ToString(validation.min))
    ELSE IF isNumber /\ has("max") /\ value.n > validation.max
    THEN Failure("Maximum value is " \o ToString(validation.max))
    ELSE IF has("pattern") /\ isString /\ ~RegExpTest(validation.pattern, value.s)
    THEN Failure("Invalid format")
    ELSE IF has("email") /\ validation.email /\ isString
            /\ ~emailRegexTest(value.s)
    THEN Failure("Invalid email address")
    ELSE IF has("url") /\ validation.url /\ isString /\ ~URLParses(value.s)
    THEN Failure("Invalid URL")
    ELSE IF has("phone") /\ validation.phone /\ isString
            /\ (~phoneRegexTest(value.s) \/ DigitCount(value.s) < 10)
    THEN Failure("Invalid phone number")
    ELSE IF has("validate")
    THEN normalizeResult(ApplyValidate(validation.validate, value, allValues))
    ELSE [valid |-> TRUE]

\* mutant: the length check runs before the required check
runSyncValidationLengthFirst(field, value, allValues) ==
    IF "validation" \notin DOMAIN field
    THEN [valid |-> TRUE]
    ELSE IF tooShort(field, value)
    THEN Failure(minLengthMessage(field))
    ELSE IF "required" \in DOMAIN field /\ field.required /\ isEmpty(value)
    THEN Failure(requiredMessage(field))
    ELSE checksAfterMinLength(field, value, allValues)

runSyncValidation(field, value, allValues) ==
    IF "validation" \notin DOMAIN field
    THEN [valid |-> TRUE]
    ELSE IF "required" \in DOMAIN field /\ field.required /\ isEmpty(value)
    THEN Failure(requiredMessage(field))
    ELSE IF tooShort(field, value)
    THEN Failure(minLengthMessage(field))
    ELSE checksAfterMinLength(field, value, allValues)

-----------------------------------------------------------------------------
(* Cross-field rules *)

Range(seq) == {seq[k] : k \in 1..Len(seq)}

EmptyMap == [k \in {} |-> TRUE]

\* UTF-16 code units of the characters date strings are made of
CharCode(c) ==
    CASE c = "-" -> 45 [] c = "0" -> 48 [] c = "1" -> 49 [] c = "2" -> 50
      [] c = "3" -> 51 [] c = "4" -> 52 [] c = "5" -> 53 [] c = "6" -> 54
      [] c = "7" -> 55 [] c = "8" -> 56 [] c = "9" -> 57 [] OTHER -> 120

\* a >= b on two strings: the comparison of their code units, left to right
RECURSIVE StrGE(_, _)
StrGE(a, b) ==
    IF b = <<>> THEN TRUE
    ELSE IF a = <<>> THEN FALSE
    ELSE IF CharCode(Head(a)) # CharCode(Head(b))
    THEN CharCode(Head(a)) > CharCode(Head(b))
    ELSE StrGE(Tail(a), Tail(b))

\* a >= b as JavaScript evaluates it here: undefined compares false
JSGreaterEq(a, b) == a.t = "string" /\ b.t = "string" /\ StrGE(a.s, b.s)

\* s.substring(0, n)
Prefix(s, n) == SubSeq(s, 1, IF n < Len(s) THEN n ELSE Len(s))

\* CrossFieldValidation.validate(values)
ApplyRule(tag, v) ==
    CASE tag = "endAfterStart" ->
            IF JSGreaterEq(v.end_date, v.start_date)
            THEN JSTrue
            ELSE JSString("End date must not be before start date")
      [] tag = "sameYearWarning" ->
            IF /\ v.start_date.t = "string" /\ v.end_date.t = "string"
               /\ Prefix(v.start_date.s, 4) = Prefix(v.end_date.s, 4)
            THEN JSTrue
            ELSE [valid |-> FALSE, message |-> "Dates span several years",
                  severity |-> "warning"]
      [] tag = "endGiven" ->
            IF v.end_date.t = "string" /\ v.end_date.s # <<>>
            THEN [valid |-> TRUE]
            ELSE [valid |-> FALSE, message |-> "End date is missing",
                  severity |-> "error", blocking |-> TRUE]
      [] tag = "promoNotEmail" ->
            IF v.promo # v.email \/ v.promo = Undefined
            THEN JSTrue
            ELSE JSString("Promo code must differ from the email")
      [] OTHER -> JSTrue

RECURSIVE crossFieldLoop(_, _, _)
crossFieldLoop(rules, vals, results) ==
    IF rules = <<>>
    THEN results
    ELSE LET rule == Head(rules)
             ruleValues == [f \in Range(rule.fields) |-> Get(vals, f)]
             normalized == normalizeResult(ApplyRule(rule.validate, ruleValues))
         IN crossFieldLoop(Tail(rules), vals,
                IF ~normalized.valid
                THEN [f \in Range(rule.fields) |-> normalized] @@ results
                ELSE results)

\* validateCrossField() of a schema whose validation.crossField is `rules`
\* (the empty sequence when the schema has none), on the store's values
validateCrossField(rules, vals) == crossFieldLoop(rules, vals, EmptyMap)


-----------------------------------------------------------------------------
(* The schema of the form under test *)

emailField ==
    [id |-> "email", name |-> "email", type |-> "email", label |-> "Email",
     required |-> TRUE,
     dependsOn |-> <<"promo">>,
     validation |-> [email |-> TRUE, validateAsync |-> "checkAvailable"]]

promoField ==
    [id |-> "promo", name |-> "promo", type |-> "text", label |-> "Promo code",
     required |-> TRUE,
     showIf |-> "notMember",
     dependsOn |-> <<"email">>,
     validation |-> EmptyMap,
     suggest |-> EmptyMap]

\* minConfidence in hundredths
notesField ==
    [id |-> "notes", name |-> "notes", type |-> "textarea", label |-> "Notes",
     dependsOn |-> <<"promo">>,
     suggest |-> [minConfidence |-> 80]]

schema ==
    [version |-> "3.1.0",
     pages |-> << [id |-> "page1", title |-> "Account",
                   fields |-> <<emailField, promoField>>],
                  [id |-> "page2", title |-> "Details",
                   fields |-> <<notesField>>] >>,
     validation |-> [crossField |->
                        << [fields |-> <<"promo", "email">>,
                            validate |-> "promoNotEmail"] >>]]

memberEmail == Str(<<"a", "@", "b", ".", "c">>)

\* FormField.showIf as a function of the form values
ApplyShowIf(tag, vals) ==
    CASE tag = "notMember" -> Get(vals, "email") # memberEmail
      [] OTHER -> TRUE

\* schema.pages.forEach(page => page.fields.forEach(...)): the fields in order
RECURSIVE FlattenFields(_)
FlattenFields(pages) ==
    IF pages = <<>> THEN <<>> ELSE Head(pages).fields \o FlattenFields(Tail(pages))

AllFields == FlattenFields(schema.pages)

FieldNames == {AllFields[k].name : k \in 1..Len(AllFields)}

\* useValidation: fieldMap (a later field of the same name replaces an earlier one)
fieldMap ==
    [n \in FieldNames |->
        AllFields[CHOOSE k \in 1..Len(AllFields) :
                     /\ AllFields[k].name = n
                     /\ \A j \in (k + 1)..Len(AllFields) : AllFields[j].name # n]]

LastPageIndex == Len(schema.pages) - 1

-----------------------------------------------------------------------------
(* useFormState.  An operation is a function from store to store: React     *)
(* applies the updaters an operation queues, in order, to the pending state *)

Store ==
    [values |-> values, initialValues |-> initialValues,
     dirtyFields |-> dirtyFields, history |-> history,
     historyIndex |-> historyIndex, userEditedFields |-> userEditedFields,
     aiAssistedFields |-> aiAssistedFields, validations |-> validations,
     suggestions |-> suggestions, lastSaved |-> lastSaved,
     maxHistorySize |-> maxHistorySize,
     dirtyCalls |-> <<>>]

Commit(st) ==
    /\ values' = st.values
    /\ initialValues' = st.initialValues
    /\ dirtyFields' = st.dirtyFields
    /\ history' = st.history
    /\ historyIndex' = st.historyIndex
    /\ userEditedFields' = st.userEditedFields
    /\ aiAssistedFields' = st.aiAssistedFields
    /\ validations' = st.validations
    /\ suggestions' = st.suggestions
    /\ lastSaved' = st.lastSaved
    /\ maxHistorySize' = st.maxHistorySize

\* lastSavedAt and lastSavedValues are undefined until markClean runs
NotSaved == [saved |-> FALSE]

\* the state useFormState starts from, given the initialValues option
InitialStore(initialValuesProp, maxSize) ==
    LET withDefault == {k \in 1..Len(AllFields) : "defaultValue" \in DOMAIN AllFields[k]}
        fromProp == {n \in FieldNames : n \in DOMAIN initialValuesProp}
        defaultValues ==
            [n \in {AllFields[k].name : k \in withDefault} \cup fromProp |->
                IF \E k \in withDefault : AllFields[k].name = n
                THEN AllFields[CHOOSE k \in withDefault :
                        /\ AllFields[k].name = n
                        /\ \A j \in withDefault : AllFields[j].name = n => j <= k
                     ].defaultValue
                ELSE initialValuesProp[n]]
        merged == initialValuesProp @@ defaultValues
    IN [values |-> merged, initialValues |-> merged,
        dirtyFields |-> {}, history |-> <<>>, historyIndex |-> -1,
        userEditedFields |-> {}, aiAssistedFields |-> {},
        validations |-> EmptyMap, suggestions |-> EmptyMap,
        lastSaved |-> NotSaved,
        maxHistorySize |-> maxSize,
        dirtyCalls |-> <<>>]

\* mutant: the entries beyond the cursor are kept
addToHistoryKeepsFuture(st, entry) ==
    LET pushed == Append(st.history, entry)
        newHistory == IF Len(pushed) > st.maxHistorySize THEN Tail(pushed) ELSE pushed
    IN [st EXCEPT !.history = newHistory, !.historyIndex = Len(newHistory) - 1]

addToHistory(st, entry) ==
    LET kept == SubSeq(st.history, 1, st.historyIndex + 1)
        pushed == Append(kept, entry)
        newHistory == IF Len(pushed) > st.maxHistorySize THEN Tail(pushed) ELSE pushed
    IN [st EXCEPT !.history = newHistory, !.historyIndex = Len(newHistory) - 1]

\* mutant: a field, once dirty, stays dirty
setValueUpdaterNeverClean(st, fieldId, value, source) ==
    IF Get(st.values, fieldId) = value
    THEN st
    ELSE [st EXCEPT
            !.values = (fieldId :> value) @@ st.values,
            !.dirtyFields = @ \cup {fieldId},
            !.userEditedFields = IF source = "user" THEN @ \cup {fieldId} ELSE @,
            !.aiAssistedFields = IF source = "suggested" THEN @ \cup {fieldId} ELSE @]

\* the updater setValue queues (169-215)
setValueUpdater(st, fieldId, value, source) ==
    IF Get(st.values, fieldId) = value
    THEN st
    ELSE LET newValues == (fieldId :> value) @@ st.values
             newDirtyFields ==
                 IF value # Get(st.initialValues, fieldId)
                 THEN st.dirtyFields \cup {fieldId}
                 ELSE st.dirtyFields \ {fieldId}
         IN [st EXCEPT
                !.values = newValues,
                !.dirtyFields = newDirtyFields,
                !.userEditedFields =
                    IF source = "user" THEN @ \cup {fieldId} ELSE @,
                !.aiAssistedFields =
                    IF source = "suggested" THEN @ \cup {fieldId} ELSE @,
                !.dirtyCalls =
                    IF Cardinality(newDirtyFields) # Cardinality(st.dirtyFields)
                    THEN Append(@, [isDirty |-> newDirtyFields # {},
                                    dirtyFields |-> newDirtyFields])
                    ELSE @]

FieldEdit(fieldId) == [type |-> "field-edit", fieldIds |-> <<fieldId>>]

setValue(st, fieldId, value, source) ==
    addToHistory(setValueUpdater(st, fieldId, value, source), FieldEdit(fieldId))

\* mutant: the cursor is moved back without the floor at -1
undoUnclamped(st) == [st EXCEPT !.historyIndex = @ - 1]

undo(st) ==
    [st EXCEPT !.historyIndex = IF @ - 1 > -1 THEN @ - 1 ELSE -1]

redo(st) ==
    [st EXCEPT !.historyIndex =
        IF @ + 1 < Len(st.history) - 1 THEN @ + 1 ELSE Len(st.history) - 1]

clearHistory(st) == [st EXCEPT !.history = <<>>, !.historyIndex = -1]

\* mutant: only the values and the dirty set are reset
resetValuesOnly(st) ==
    [st EXCEPT !.values = st.initialValues, !.dirtyFields = {}]

reset(st) ==
    [st EXCEPT !.values = st.initialValues, !.dirtyFields = {},
               !.validations = EmptyMap, !.suggestions = EmptyMap,
               !.history = <<>>, !.historyIndex = -1]

canUndo(st) == st.historyIndex >= 0

canRedo(st) == st.historyIndex < Len(st.history) - 1

\* a ValidationResult is stored for the field, null removes the entry
setFieldValidation(st, fieldId, validation) ==
    [st EXCEPT !.validations =
        IF validation # Null
        THEN (fieldId :> validation) @@ @
        ELSE [f \in DOMAIN @ \ {fieldId} |-> @[f]]]


\* suggestion?.status === 'accepted'
hasSuggestionAccepted(st, fieldId) ==
    /\ fieldId \in DOMAIN st.suggestions
    /\ st.suggestions[fieldId].status = "accepted"

\* mutant: the checkpoint taken is the initial values
markCleanInitialValues(st) ==
    [st EXCEPT !.lastSaved = [saved |-> TRUE, values |-> st.initialValues]]

\* lastSavedAt is the time of the call, lastSavedValues a copy of the values
markClean(st) ==
    [st EXCEPT !.lastSaved = [saved |-> TRUE, values |-> st.values]]

\* lastSavedValues || initialValues
baseValues(st) ==
    IF st.lastSaved.saved THEN st.lastSaved.values ELSE st.initialValues

\* the FieldChange entries, without their timestamps: one for each key of
\* values whose value is not the base value
getChanges(st) ==
    {[fieldId |-> fieldId,
      from |-> Get(baseValues(st), fieldId),
      to |-> st.values[fieldId],
      source |-> IF hasSuggestionAccepted(st, fieldId) THEN "suggested" ELSE "user"] :
        fieldId \in {f \in DOMAIN st.values :
                        st.values[f] # Get(baseValues(st), f)}}

isDirty(st) == Cardinality(st.dirtyFields) > 0

hasUnsavedChanges(st) ==
    IF st.lastSaved.saved
    THEN Cardinality(st.dirtyFields) > 0
    ELSE Cardinality(st.dirtyFields) > 0

isDraftSaved(st) == st.lastSaved.saved


\* the suggestion functions read stateRef.current.suggestions: the state of
\* the last render, which is the store the operation starts from

getSuggestionState(st, fieldId) == st.suggestions[fieldId]

hasSuggestion(st, fieldId) == fieldId \in DOMAIN st.suggestions

setSuggestionState(st, fieldId, suggestionState) ==
    [st EXCEPT !.suggestions = (fieldId :> suggestionState) @@ @]

HistoryEntry(type, fieldId) == [type |-> type, fieldIds |-> <<fieldId>>]

\* mutant: the accepted value is written as a user edit
acceptSuggestionAsUser(st, fieldId) ==
    IF ~hasSuggestion(st, fieldId)
    THEN st
    ELSE LET suggestion == getSuggestionState(st, fieldId)
             written == setValue(st, fieldId, suggestion.suggestedValue, "user")
             stamped == setSuggestionState(written, fieldId,
                            [suggestion EXCEPT !.activeValue = "suggested",
                                               !.status = "accepted"])
         IN addToHistory(stamped, HistoryEntry("accept-suggestion", fieldId))

acceptSuggestion(st, fieldId) ==
    IF ~hasSuggestion(st, fieldId)
    THEN st
    ELSE LET suggestion == getSuggestionState(st, fieldId)
             written == setValue(st, fieldId, suggestion.suggestedValue, "suggested")
             stamped == setSuggestionState(written, fieldId,
                            [suggestion EXCEPT !.activeValue = "suggested",
                                               !.status = "accepted"])
         IN addToHistory(stamped, HistoryEntry("accept-suggestion", fieldId))

dismissSuggestion(st, fieldId) ==
    IF ~hasSuggestion(st, fieldId)
    THEN st
    ELSE LET suggestion == getSuggestionState(st, fieldId)
             stamped == setSuggestionState(st, fieldId,
                            [suggestion EXCEPT !.status = "dismissed"])
         IN addToHistory(stamped, HistoryEntry("dismiss-suggestion", fieldId))

\* mutant: the toggle flips the selector and leaves the value alone
toggleValueSelectorOnly(st, fieldId) ==
    IF ~hasSuggestion(st, fieldId)
    THEN st
    ELSE LET suggestion == getSuggestionState(st, fieldId)
             newActiveValue == IF suggestion.activeValue = "user"
                               THEN "suggested" ELSE "user"
             stamped == setSuggestionState(st, fieldId,
                            [suggestion EXCEPT !.activeValue = newActiveValue])
         IN addToHistory(stamped, HistoryEntry("toggle-value", fieldId))

toggleValue(st, fieldId) ==
    IF ~hasSuggestion(st, fieldId)
    THEN st
    ELSE LET suggestion == getSuggestionState(st, fieldId)
             newActiveValue == IF suggestion.activeValue = "user"
                               THEN "suggested" ELSE "user"
             newValue == IF newActiveValue = "user"
                         THEN suggestion.userValue
                         ELSE suggestion.suggestedValue
             written == setValue(st, fieldId, newValue,
                                 IF newActiveValue = "suggested"
                                 THEN "suggested" ELSE "user")
             stamped == setSuggestionState(written, fieldId,
                            [suggestion EXCEPT !.activeValue = newActiveValue])
         IN addToHistory(stamped, HistoryEntry("toggle-value", fieldId))

\* mutant: the reset restores the suggestion and leaves the field's value alone
resetToOriginalSuggestionStateOnly(st, fieldId) ==
    IF ~hasSuggestion(st, fieldId)
    THEN st
    ELSE LET suggestion == getSuggestionState(st, fieldId)
         IN setSuggestionState(st, fieldId,
                [suggestion EXCEPT
                    !.suggestedValue = suggestion.originalSuggestedValue,
                    !.suggestedValueModified = FALSE])

resetToOriginalSuggestion(st, fieldId) ==
    IF ~hasSuggestion(st, fieldId)
    THEN st
    ELSE LET suggestion == getSuggestionState(st, fieldId)
             restored == setSuggestionState(st, fieldId,
                            [suggestion EXCEPT
                                !.suggestedValue = suggestion.originalSuggestedValue,
                                !.suggestedValueModified = FALSE])
         IN IF suggestion.activeValue = "suggested"
            THEN setValue(restored, fieldId, suggestion.originalSuggestedValue,
                          "suggested")
            ELSE restored

markAsReviewed(st, fieldId) ==
    IF ~hasSuggestion(st, fieldId)
    THEN st
    ELSE setSuggestionState(st, fieldId,
            [getSuggestionState(st, fieldId) EXCEPT !.status = "reviewing"])

-----------------------------------------------------------------------------
(* useSuggestions: the functions on suggestion states.  A confidence is in  *)
(* hundredths; a suggestion state carries `expired` where the code carries  *)
(* expiresAt, true once Date.now() has passed it                            *)

SuggestionResult(suggestedValue) == [suggestedValue |-> suggestedValue]

WithConfidence(result, confidence) == [confidence |-> confidence] @@ result

\* isSuggestionExpired: Date.now() > suggestion.expiresAt, false without expiresAt
isSuggestionExpired(suggestion) ==
    IF "expired" \in DOMAIN suggestion THEN suggestion.expired ELSE FALSE

\* result.confidence || 0
confidenceOrZero(result) ==
    IF "confidence" \in DOMAIN result THEN result.confidence ELSE 0

createSuggestionState(result, currentUserValue) ==
    [userValue |-> currentUserValue,
     suggestedValue |-> result.suggestedValue,
     originalSuggestedValue |-> result.suggestedValue,
     activeValue |-> "user",
     suggestedValueModified |-> FALSE,
     status |-> "available",
     confidence |-> confidenceOrZero(result),
     reason |-> "",
     expired |-> FALSE]

\* the fields clearExpiredSuggestions collects; it then clears none of them
expiredFields(st) ==
    {f \in DOMAIN fieldMap : hasSuggestion(st, f)
                             /\ isSuggestionExpired(getSuggestionState(st, f))}

clearExpiredSuggestions(st) == st

-----------------------------------------------------------------------------
(* useValidation: the asynchronous part.  A world is the store, the refs of *)
(* useValidation, the page index and the suspended handlers, with what the  *)
(* running step has called out to so far                                    *)

World ==
    [store |-> Store, cache |-> cache, pending |-> pending, tasks |-> tasks,
     hungChanges |-> hungChanges, currentPageIndex |-> currentPageIndex,
     done |-> <<>>, invoked |-> {}, rejected |-> {}]

\* JSON.stringify(value)
JSONStringify(value) ==
    CASE value.t = "string" -> <<"\"">> \o value.s \o <<"\"">>
      [] value.t = "number" -> <<ToString(value.n)>>
      [] value.t = "null" -> <<"null">>
      [] OTHER -> <<"undefined">>

\* `${fieldId}:${JSON.stringify(value)}`
cacheKey(fieldId, value) == <<fieldId, ":">> \o JSONStringify(value)

\* mutant: an entry is served however old it is
getCachedResultNoExpiry(w, fieldId, value) ==
    LET key == cacheKey(fieldId, value)
    IN IF key \notin DOMAIN w.cache
       THEN [w |-> w, hit |-> FALSE]
       ELSE [w |-> w, hit |-> TRUE, result |-> w.cache[key].result]

\* getCachedResult: the world after the lookup, and the result or null
getCachedResult(w, fieldId, value) ==
    LET key == cacheKey(fieldId, value)
    IN IF key \notin DOMAIN w.cache
       THEN [w |-> w, hit |-> FALSE]
       ELSE IF w.cache[key].expired
       THEN [w |-> [w EXCEPT !.cache = [k \in DOMAIN @ \ {key} |-> @[k]]],
             hit |-> FALSE]
       ELSE [w |-> w, hit |-> TRUE, result |-> w.cache[key].result]

cacheResult(w, key, result, ttl) ==
    [w EXCEPT !.cache = (key :> [result |-> result, expired |-> FALSE,
                                 ttl |-> ttl]) @@ @]

\* validation.cacheTtl || 300, in seconds
DefaultCacheTtl == 300

cacheTtl(validation) ==
    IF "cacheTtl" \in DOMAIN validation /\ validation.cacheTtl # 0
    THEN validation.cacheTtl
    ELSE DefaultCacheTtl

\* runAsyncValidation up to its first await (868-906): the world after it, and
\* the call as it stands, settled or awaiting the promise of `key`
runAsyncValidation(w, field, value, allValues) ==
    LET validation == field.validation
        cacheEnabled == ~("cacheResults" \in DOMAIN validation
                          /\ validation.cacheResults = FALSE)
        looked == IF cacheEnabled
                  THEN getCachedResult(w, field.name, value)
                  ELSE [w |-> w, hit |-> FALSE]
        key == cacheKey(field.name, value)
        call == [field |-> field.name, value |-> value]
    IN IF looked.hit
       THEN [w |-> looked.w,
             call |-> [settled |-> TRUE, result |-> looked.result] @@ call]
       ELSE IF key \in looked.w.pending
       THEN [w |-> looked.w,
             call |-> [settled |-> FALSE, key |-> key, role |-> "waiter"] @@ call]
       ELSE [w |-> [looked.w EXCEPT !.pending = @ \cup {key},
                                    !.invoked = @ \cup {key}],
             call |-> [settled |-> FALSE, key |-> key, role |-> "issuer"] @@ call]

\* validateField up to its first await (929-950)
validateField(w, fieldId, allValues) ==
    IF fieldId \notin DOMAIN fieldMap
    THEN [w |-> w,
          call |-> [field |-> fieldId, value |-> Undefined,
                    settled |-> TRUE, result |-> [valid |-> TRUE]]]
    ELSE LET field == fieldMap[fieldId]
             value == Get(w.store.values, fieldId)
             syncResult == runSyncValidation(field, value, allValues)
             call == [field |-> fieldId, value |-> value]
         IN IF ~syncResult.valid
            THEN [w |-> w, call |-> [settled |-> TRUE, result |-> syncResult] @@ call]
            ELSE IF "validation" \in DOMAIN field
                    /\ "validateAsync" \in DOMAIN field.validation
            THEN runAsyncValidation(w, field, value, allValues)
            ELSE [w |-> w,
                  call |-> [settled |-> TRUE, result |-> [valid |-> TRUE]] @@ call]

\* fieldIds.map(async id => validateField(id)): the calls start in order
RECURSIVE validateEach(_, _, _, _)
validateEach(w, fieldIds, allValues, calls) ==
    IF fieldIds = <<>>
    THEN [w |-> w, calls |-> calls]
    ELSE LET r == validateField(w, Head(fieldIds), allValues)
         IN validateEach(r.w, Tail(fieldIds), allValues, Append(calls, r.call))

AllSettled(calls) == \A k \in 1..Len(calls) : calls[k].settled

\* !result.valid && result.blocking
Blocks(result) == ~result.valid /\ "blocking" \in DOMAIN result /\ result.blocking

\* mutant: every invalid result vetoes, a warning too
hasBlockingErrorsAnyInvalid(calls) == \E k \in 1..Len(calls) : ~calls[k].result.valid

\* the forEach of handleNextPage and handleSubmit over the results
hasBlockingErrors(calls) == \E k \in 1..Len(calls) : Blocks(calls[k].result)

\* Array.from(fieldMap.keys()): the names in order of first insertion
RECURSIVE FirstOccurrences(_, _)
FirstOccurrences(names, seen) ==
    IF names = <<>> THEN <<>>
    ELSE IF Head(names) \in seen THEN FirstOccurrences(Tail(names), seen)
    ELSE <<Head(names)>> \o FirstOccurrences(Tail(names), seen \cup {Head(names)})

NamesOf(fields) == [k \in 1..Len(fields) |-> fields[k].name]

fieldMapKeys == FirstOccurrences(NamesOf(AllFields), {})

\* the fields validateDependentFields(fieldId) revalidates
dependentFields(fieldId) ==
    SelectSeq(fieldMapKeys,
              LAMBDA fid : /\ "dependsOn" \in DOMAIN fieldMap[fid]
                           /\ fieldId \in Range(fieldMap[fid].dependsOn))

\* a handler suspended at an await: a debounce timer not yet fired ("timer"),
\* handleFieldChange awaiting the debounced validation ("debounced") or the
\* dependent validations ("dependents"), handleNextPage ("next") with the page
\* index of its closure, handleSubmit ("submit") with the values of its closure
Task(kind, field, page, allValues, calls) ==
    [kind |-> kind, field |-> field, page |-> page, allValues |-> allValues,
     calls |-> calls]

Finish(w, record) == [w EXCEPT !.done = Append(@, record)]

Suspend(w, task) == [w EXCEPT !.tasks = Append(@, task)]

\* handleNextPage after `await validation.validatePage(currentPage.id)`
nextContinue(w, task) ==
    LET advance == /\ ~hasBlockingErrors(task.calls)
                   /\ task.page < Len(schema.pages) - 1
        after == IF advance THEN w.currentPageIndex + 1 ELSE w.currentPageIndex
    IN Finish([w EXCEPT !.currentPageIndex = after],
              [kind |-> "next", page |-> task.page, calls |-> task.calls,
               allValues |-> task.allValues,
               indexBefore |-> w.currentPageIndex, indexAfter |-> after])

crossFieldRules ==
    IF "validation" \in DOMAIN schema /\ "crossField" \in DOMAIN schema.validation
    THEN schema.validation.crossField
    ELSE <<>>

\* handleSubmit after `await validation.validateAll()`
submitContinue(w, task) ==
    IF hasBlockingErrors(task.calls)
    THEN Finish(w, [kind |-> "submit", calls |-> task.calls,
                    allValues |-> task.allValues, crossRan |-> FALSE,
                    cross |-> EmptyMap, onSubmit |-> <<>>])
    ELSE LET cross == validateCrossField(crossFieldRules, w.store.values)
             hasCrossFieldErrors == \E f \in DOMAIN cross : Blocks(cross[f])
         IN Finish(w, [kind |-> "submit", calls |-> task.calls,
                       allValues |-> task.allValues, crossRan |-> TRUE,
                       cross |-> cross,
                       onSubmit |-> IF hasCrossFieldErrors
                                    THEN <<>>
                                    ELSE <<task.allValues>>])

\* handleFieldChange after `await validation.validateFieldDebounced(fieldId)`:
\* the result is dropped, requestSuggestion returns null at once in a host
\* that passes no onSuggest, and the dependent fields are validated
changeContinue(w, task) ==
    LET r == validateEach(w, dependentFields(task.field), task.allValues, <<>>)
    IN IF AllSettled(r.calls)
       THEN Finish(r.w, [kind |-> "change", field |-> task.field,
                         dependents |-> r.calls,
                         cachedAtChange |-> task.cachedAtChange])
       ELSE Suspend(r.w, Task("dependents", task.field, 0, task.allValues, r.calls)
                         @@ [cachedAtChange |-> task.cachedAtChange])

continue(w, task) ==
    CASE task.kind = "next" -> nextContinue(w, task)
      [] task.kind = "submit" -> submitContinue(w, task)
      [] task.kind = "debounced" -> changeContinue(w, task)
      [] OTHER -> Finish(w, [kind |-> "change", field |-> task.field,
                             dependents |-> task.calls,
                             cachedAtChange |-> task.cachedAtChange])

\* an awaited promise rejected: the handler's own promise rejects with nobody
\* to catch it; the promise of validateFieldDebounced is then never resolved
throw(w, task) ==
    CASE task.kind = "debounced" ->
            [w EXCEPT !.rejected = @ \cup {"timer"},
                      !.hungChanges = @ \cup {task.field}]
      [] task.kind = "dependents" -> [w EXCEPT !.rejected = @ \cup {"change"}]
      [] OTHER -> [w EXCEPT !.rejected = @ \cup {task.kind}]

Awaits(task, key) ==
    \E k \in 1..Len(task.calls) : ~task.calls[k].settled /\ task.calls[k].key = key

AwaitsAs(task, key, role) ==
    \E k \in 1..Len(task.calls) :
        /\ ~task.calls[k].settled
        /\ task.calls[k].key = key
        /\ task.calls[k].role = role

settleCalls(calls, key, result) ==
    [k \in 1..Len(calls) |->
        IF ~calls[k].settled /\ calls[k].key = key
        THEN [field |-> calls[k].field, value |-> calls[k].value,
              settled |-> TRUE, result |-> result]
        ELSE calls[k]]

Rejection(isError, message) == [rejected |-> TRUE, isError |-> isError, message |-> message]

IsRejection(outcome) == "rejected" \in DOMAIN outcome

\* the catch clause of runAsyncValidation (916-922)
caughtResult(outcome) ==
    Failure(IF outcome.isError THEN outcome.message ELSE "Validation error")

\* the promise of `key` settles: the handlers awaiting it resume, oldest first
RECURSIVE resumeTasks(_, _, _, _)
resumeTasks(w, waiting, key, outcome) ==
    IF waiting = <<>>
    THEN w
    ELSE LET task == Head(waiting)
             result == IF IsRejection(outcome)
                       THEN caughtResult(outcome)
                       ELSE normalizeResult(outcome)
             resumed == [task EXCEPT !.calls = settleCalls(@, key, result)]
         IN resumeTasks(
                IF task.kind = "timer" \/ ~Awaits(task, key)
                THEN Suspend(w, task)
                ELSE IF IsRejection(outcome) /\ AwaitsAs(task, key, "waiter")
                THEN throw(w, task)
                ELSE IF AllSettled(resumed.calls)
                THEN continue(w, resumed)
                ELSE Suspend(w, resumed),
                Tail(waiting), key, outcome)

\* runAsyncValidation of the caller that issued the promise, from its await
\* on (906-925)
issuerSettles(w, key, outcome) ==
    LET validation == fieldMap[key[1]].validation
        cacheEnabled == ~("cacheResults" \in DOMAIN validation
                          /\ validation.cacheResults = FALSE)
        settled == Finish([w EXCEPT !.pending = @ \ {key}],
                          [kind |-> "validateAsync", key |-> key,
                           outcome |-> outcome])
    IN IF ~IsRejection(outcome) /\ cacheEnabled
       THEN cacheResult(settled, key, normalizeResult(outcome), cacheTtl(validation))
       ELSE settled

settle(w, key, outcome) ==
    resumeTasks([issuerSettles(w, key, outcome) EXCEPT !.tasks = <<>>],
                w.tasks, key, outcome)

-----------------------------------------------------------------------------
(* useSuggestions: the request path, in a host that passes onSuggest.  A    *)
(* request world is the pending map and the suspended handlers, with what   *)
(* the running step has invoked, returned and applied so far                *)

\* field.suggest.minConfidence || 0.7, in hundredths
DefaultMinConfidence == 70

minConfidence(field) ==
    IF "minConfidence" \in DOMAIN field.suggest /\ field.suggest.minConfidence # 0
    THEN field.suggest.minConfidence
    ELSE DefaultMinConfidence

RequestWorld ==
    [pending |-> suggestPending, tasks |-> suggestTasks,
     invoked |-> <<>>, returned |-> <<>>, applied |-> <<>>, rejected |-> {}]

declaresSuggest(fieldId) ==
    fieldId \in DOMAIN fieldMap /\ "suggest" \in DOMAIN fieldMap[fieldId]

shouldTriggerSuggestion(st, fieldId, newValue) ==
    IF ~declaresSuggest(fieldId)
    THEN FALSE
    ELSE IF hasSuggestion(st, fieldId)
            /\ getSuggestionState(st, fieldId).status \in {"loading", "expecting"}
    THEN FALSE
    ELSE IF hasSuggestion(st, fieldId)
            /\ ~isSuggestionExpired(getSuggestionState(st, fieldId))
    THEN FALSE
    ELSE ~isEmpty(newValue)

\* requestSuggestion up to its await (1375-1407): the request world after it,
\* and the call as it stands: null at once, awaiting the pending promise
\* ("waiter"), or awaiting the promise onSuggest just returned ("issuer")
requestSuggestion(r, st, fieldId, via) ==
    LET call == [field |-> fieldId, via |-> via]
    IN IF ~declaresSuggest(fieldId)
       THEN [r |-> r, call |-> [settled |-> TRUE, result |-> Null] @@ call]
       ELSE IF fieldId \in r.pending
       THEN [r |-> r, call |-> [settled |-> FALSE, role |-> "waiter"] @@ call]
       ELSE [r |-> [r EXCEPT !.pending = @ \cup {fieldId},
                             !.invoked = Append(@, [fieldId |-> fieldId,
                                                    currentValue |-> Get(st.values, fieldId),
                                                    via |-> via])],
             call |-> [settled |-> FALSE, role |-> "issuer"] @@ call]

\* requestSuggestion of the caller that issued the promise, from its await on
\* (1409-1421): what it returns
afterAwait(fieldId, outcome) ==
    IF IsRejection(outcome)
    THEN Null
    ELSE IF "confidence" \in DOMAIN outcome
            /\ outcome.confidence < minConfidence(fieldMap[fieldId])
    THEN Null
    ELSE outcome

\* dependentFields.map(fid => requestSuggestion(fid)): the calls start in order
RECURSIVE requestEach(_, _, _, _)
requestEach(r, st, fieldIds, calls) ==
    IF fieldIds = <<>>
    THEN [r |-> r, calls |-> calls]
    ELSE LET q == requestSuggestion(r, st, Head(fieldIds), "triggerDependentSuggestions")
         IN requestEach(q.r, st, Tail(fieldIds), Append(calls, q.call))

\* triggerDependentSuggestions up to its await, as the last step of the
\* Renderer's handleFieldChange
triggerDependentSuggestions(r, st, fieldId) ==
    LET dependents == SelectSeq(dependentFields(fieldId), declaresSuggest)
        q == requestEach(r, st, dependents, <<>>)
    IN IF AllSettled(q.calls)
       THEN q.r
       ELSE [q.r EXCEPT !.tasks = Append(@, [kind |-> "dependentSuggestions",
                                             field |-> fieldId, calls |-> q.calls])]

\* applySuggestionResult: the state is built and nothing is stored
applySuggestionResult(r, st, fieldId, result) ==
    [r EXCEPT !.applied =
        Append(@, [fieldId |-> fieldId, result |-> result,
                   built |-> createSuggestionState(result, Get(st.values, fieldId))])]

\* the Renderer's handleFieldChange from `await suggestions.handleFieldChange`
\* on, for a field whose dependents validate synchronously
suggestionsHandleFieldChange(r, st, fieldId, newValue) ==
    IF ~shouldTriggerSuggestion(st, fieldId, newValue)
    THEN triggerDependentSuggestions(r, st, fieldId)
    ELSE LET q == requestSuggestion(r, st, fieldId, "handleFieldChange")
         IN [q.r EXCEPT !.tasks = Append(@, [kind |-> "suggestion", field |-> fieldId,
                                             calls |-> <<q.call>>])]

\* the promise of fieldId settled: what each awaiting call gets
settleRequests(calls, fieldId, outcome) ==
    [k \in 1..Len(calls) |->
        IF calls[k].settled \/ calls[k].field # fieldId
        THEN calls[k]
        ELSE [field |-> fieldId, via |-> calls[k].via, role |-> calls[k].role,
              settled |-> TRUE, outcome |-> outcome,
              result |-> IF calls[k].role = "issuer"
                         THEN afterAwait(fieldId, outcome)
                         ELSE outcome]]

awaitsSuggestion(task, fieldId) ==
    /\ task.kind # "timer"
    /\ \E k \in 1..Len(task.calls) :
          ~task.calls[k].settled /\ task.calls[k].field = fieldId

\* the handlers awaiting the promise of fieldId resume, oldest first; a
\* waiter awaits the rejected promise outside the try and its handler rejects
RECURSIVE resumeRequests(_, _, _, _, _)
resumeRequests(r, st, waiting, fieldId, outcome) ==
    IF waiting = <<>>
    THEN r
    ELSE LET task == Head(waiting)
             resumed == IF task.kind = "timer" THEN task
                        ELSE [task EXCEPT !.calls = settleRequests(@, fieldId, outcome)]
             fresh == IF task.kind = "timer" THEN <<>>
                      ELSE SelectSeq(resumed.calls,
                                     LAMBDA c : c.settled /\ c.field = fieldId
                                                /\ "outcome" \in DOMAIN c)
             told == [r EXCEPT !.returned = @ \o fresh]
         IN resumeRequests(
                IF ~awaitsSuggestion(task, fieldId)
                THEN [r EXCEPT !.tasks = Append(@, task)]
                ELSE IF IsRejection(outcome)
                        /\ \E k \in 1..Len(task.calls) :
                              /\ ~task.calls[k].settled
                              /\ task.calls[k].field = fieldId
                              /\ task.calls[k].role = "waiter"
                THEN [r EXCEPT !.rejected = @ \cup {task.field}]
                ELSE IF ~AllSettled(resumed.calls)
                THEN [told EXCEPT !.tasks = Append(@, resumed)]
                ELSE IF task.kind = "suggestion"
                THEN triggerDependentSuggestions(
                         IF resumed.calls[1].result # Null
                         THEN applySuggestionResult(told, st, task.field,
                                                    resumed.calls[1].result)
                         ELSE told,
                         st, task.field)
                ELSE told,
                st, Tail(waiting), fieldId, outcome)

\* the promise onSuggest returned for fieldId settles; the finally clause of
\* the issuer runs before any handler goes on
settleSuggestion(r, st, fieldId, outcome) ==
    resumeRequests([r EXCEPT !.pending = @ \ {fieldId}, !.tasks = <<>>],
                   st, r.tasks, fieldId, outcome)

-----------------------------------------------------------------------------
(* useBackgroundJob.  A job world is the state and the refs of the hook     *)
(* with the calls to the host that are in flight; every suggestion state    *)
(* the hook builds is dropped ("This would be set via formState internal    *)
(* API"), so the store is not part of it                                    *)

NoJob == [jobId |-> "none"]

\* a host that supplies no initialJobId and does not configure blocking
PlainProps == [initialJobId |-> "none", blocking |-> FALSE]

JobWorld ==
    [currentJob |-> currentJob, pollTimer |-> pollTimer,
     processedUpdates |-> processedUpdates, isBlocking |-> isBlocking,
     calls |-> jobCalls, polled |-> <<>>, resumed |-> <<>>, processed |-> {},
     render |-> FALSE]

TerminalStatuses == {"completed", "failed", "cancelled"}

\* the state startBulkSuggest builds for an affected field (82-92)
expectingState(st, fieldId) ==
    [userValue |-> Get(st.values, fieldId),
     suggestedValue |-> Undefined,
     originalSuggestedValue |-> Undefined,
     activeValue |-> "user",
     suggestedValueModified |-> FALSE,
     status |-> "expecting",
     confidence |-> 0,
     reason |-> "Loading..."]

\* affectedFields.forEach(...): each state is built and none is stored
markExpecting(st, affectedFields) == st

\* job.fieldsPending.forEach(...) of a terminal poll: the updated state of a
\* field still expecting is built and not stored
resolvePending(st, job) == st

stopPolling(j) == [j EXCEPT !.pollTimer = "none"]

\* pollJob up to its await
pollJob(j, jobId) ==
    [j EXCEPT !.calls = Append(@, [kind |-> "poll", jobId |-> jobId]),
              !.polled = Append(@, jobId)]

\* the interval replaces the one there was, and one poll starts at once
startPolling(j, jobId) == pollJob([j EXCEPT !.pollTimer = jobId], jobId)

\* startBulkSuggest from `await onBulkSuggest(...)` on
startBulkSuggest(j, call, response) ==
    IF IsRejection(response) \/ "immediate" \in DOMAIN response
       \/ "job" \notin DOMAIN response
    THEN j
    ELSE LET job == [jobId |-> response.job.jobId,
                     status |-> "queued",
                     progress |-> 0,
                     partialResults |-> EmptyMap,
                     fieldsCompleted |-> <<>>,
                     fieldsPending |-> response.job.affectedFields]
             polling == startPolling([j EXCEPT !.currentJob = job, !.render = TRUE],
                                     job.jobId)
         IN IF call.blocking THEN [polling EXCEPT !.isBlocking = TRUE] ELSE polling

\* `${jobId}:${update.fieldId}:${update.timestamp}`
updateKey(jobId, update) == <<jobId, ":", update.fieldId, ":", update.timestamp>>

\* pollJob from `await onJobProgress(jobId)` on
pollContinue(j, call, report) ==
    IF IsRejection(report)
    THEN [stopPolling(j) EXCEPT !.isBlocking = FALSE, !.render = j.isBlocking]
    ELSE LET newUpdates == IF "newUpdates" \in DOMAIN report
                           THEN report.newUpdates ELSE <<>>
             keys == {updateKey(call.jobId, newUpdates[k]) : k \in 1..Len(newUpdates)}
             updated == [j EXCEPT !.currentJob = report,
                                  !.processedUpdates = @ \cup keys,
                                  !.processed = keys \ j.processedUpdates,
                                  !.render = TRUE]
         IN IF report.status \in TerminalStatuses
            THEN [stopPolling(updated) EXCEPT !.isBlocking = FALSE,
                                              !.processedUpdates = {}]
            ELSE updated

\* cancelJob up to its await, in a host that passes onJobCancel
cancelJob(j, jobId) ==
    [j EXCEPT !.calls = Append(@, [kind |-> "cancel", jobId |-> jobId])]

\* cancelJob from `await onJobCancel(jobId)` on: a rejection goes to the
\* catch clause, which logs it; the fields' updated states are dropped
cancelContinue(j, call, outcome) ==
    IF IsRejection(outcome)
    THEN j
    ELSE LET matches == j.currentJob # NoJob /\ j.currentJob.jobId = call.jobId
         IN [stopPolling(j) EXCEPT
                !.currentJob = IF matches
                               THEN [status |-> "cancelled"] @@ j.currentJob
                               ELSE @,
                !.isBlocking = FALSE,
                !.render = matches \/ j.isBlocking]

\* resumeJob up to its await, in a host that passes onJobProgress
resumeJob(j, jobId) ==
    [j EXCEPT !.calls = Append(@, [kind |-> "resume", jobId |-> jobId]),
              !.resumed = Append(@, jobId)]

ActiveStatuses == {"queued", "processing"}

\* resumeJob from `await onJobProgress(jobId)` on
resumeContinue(j, call, report, blocking) ==
    IF IsRejection(report)
    THEN j
    ELSE LET fetched == [j EXCEPT !.currentJob = report, !.render = TRUE]
         IN IF report.status \in ActiveStatuses
            THEN LET polling == startPolling(fetched, call.jobId)
                 IN IF blocking THEN [polling EXCEPT !.isBlocking = TRUE] ELSE polling
            ELSE fetched

\* the Renderer's effect on [initialJobId, backgroundJob]: backgroundJob is a
\* new object at every render, so the effect runs after every render
resumeEffect(j, initialJobId) ==
    IF initialJobId # "none" /\ j.render THEN resumeJob(j, initialJobId) ELSE j

-----------------------------------------------------------------------------
(* Bounds and input domains *)

\* the largest maxHistorySize option a host passes here
MaxHistorySize == 2

\* what the host writes through the store API
StoreValues == {Undefined, emptyString, memberEmail}

\* the names it writes to: a field of the schema, and a name the schema does
\* not have, as a stale UI may still hold
StoreKeys == {"email", "ghost"}

InitialValuesProps ==
    {EmptyMap,
     [email |-> memberEmail],
     [email |-> emptyString, notes |-> Str(<<"x">>)],
     [promo |-> emptyString, ghost |-> memberEmail]}

StoreIs(st) ==
    /\ values = st.values
    /\ initialValues = st.initialValues
    /\ dirtyFields = st.dirtyFields
    /\ history = st.history
    /\ historyIndex = st.historyIndex
    /\ userEditedFields = st.userEditedFields
    /\ aiAssistedFields = st.aiAssistedFields
    /\ validations = st.validations
    /\ suggestions = st.suggestions
    /\ lastSaved = st.lastSaved
    /\ maxHistorySize = st.maxHistorySize

EngineIdle ==
    /\ currentPageIndex = 0
    /\ cache = EmptyMap
    /\ pending = {}
    /\ tasks = <<>>
    /\ hungChanges = {}

HooksIdle ==
    /\ suggestPending = {}
    /\ suggestTasks = <<>>
    /\ currentJob = NoJob
    /\ pollTimer = "none"
    /\ processedUpdates = {}
    /\ isBlocking = FALSE
    /\ jobCalls = <<>>
    /\ saveCalls = 0
    /\ props = PlainProps

NoProbe == [fn |-> "none"]

ProbeIdle ==
    /\ probe = NoProbe
    /\ ret = NoProbe

-----------------------------------------------------------------------------
(* SpecStore: the store API as a host drives it through formStateRef *)

InitStore ==
    /\ \E prop \in InitialValuesProps, size \in 1..MaxHistorySize :
          StoreIs(InitialStore(prop, size))
    /\ EngineIdle
    /\ HooksIdle
    /\ ProbeIdle
    /\ lastOp = [op |-> "mount"]

StoreSetValue(fieldId, value, source) ==
    LET st == setValue(Store, fieldId, value, source)
    IN /\ Commit(st)
       /\ lastOp' = [op |-> "setValue", fieldId |-> fieldId, value |-> value,
                     source |-> source, dirtyCalls |-> st.dirtyCalls]
       /\ UNCHANGED <<engineVars, hookVars, probeVars>>

StoreUndo ==
    /\ Commit(undo(Store))
    /\ lastOp' = [op |-> "undo"]
    /\ UNCHANGED <<engineVars, hookVars, probeVars>>

StoreRedo ==
    /\ Commit(redo(Store))
    /\ lastOp' = [op |-> "redo"]
    /\ UNCHANGED <<engineVars, hookVars, probeVars>>

StoreClearHistory ==
    /\ Commit(clearHistory(Store))
    /\ lastOp' = [op |-> "clearHistory"]
    /\ UNCHANGED <<engineVars, hookVars, probeVars>>

StoreReset ==
    /\ Commit(reset(Store))
    /\ lastOp' = [op |-> "reset",
                  cleared |-> [dirtyFields |-> dirtyFields,
                               suggestions |-> DOMAIN suggestions,
                               validations |-> DOMAIN validations,
                               entries |-> Len(history)]]
    /\ UNCHANGED <<engineVars, hookVars, probeVars>>

NextStore ==
    \/ \E fieldId \in StoreKeys, value \in StoreValues,
          source \in {"user", "suggested", "system"} :
          StoreSetValue(fieldId, value, source)
    \/ StoreUndo
    \/ StoreRedo
    \/ StoreClearHistory
    \/ StoreReset

SpecStore == InitStore /\ [][NextStore]_vars


-----------------------------------------------------------------------------
(* Schema versioning: validateSchema.  A JavaScript array is the record     *)
(* [array |-> <<...>>], so that Array.isArray can tell it from other values *)

SUPPORTED_VERSIONS == {"1.0"}

SUPPORTED_FIELD_TYPES ==
    {"INPUT", "TEXTAREA", "EMAIL", "NUMBER_INPUT", "SELECT", "RADIO_GROUP",
     "CHECKBOX", "SWITCH", "COMBOBOX", "SLIDER", "DATE", "FILE_UPLOAD"}

isArray(v) == "array" \in DOMAIN v

\* !obj[key] for a key that holds text: the key is missing or holds ''
LacksText(obj, key) == key \notin DOMAIN obj \/ obj[key] = ""

\* !obj[key] for a key that holds an array or another value: the key is
\* missing or holds undefined, null or ''
LacksValue(obj, key) ==
    key \notin DOMAIN obj \/ obj[key] \in {Undefined, Null, emptyString}

\* types.join(", ")
RECURSIVE JoinTypes(_)
JoinTypes(types) ==
    IF types = <<>> THEN ""
    ELSE IF Len(types) = 1 THEN types[1]
    ELSE types[1] \o ", " \o JoinTypes(Tail(types))

\* the version check of validateSchema(schema), whose argument is `input` here
versionWarnings(input) ==
    IF LacksText(input, "version")
    THEN <<"Schema has no version field, assuming 1.0">>
    ELSE IF input.version \notin SUPPORTED_VERSIONS
    THEN <<"Schema version " \o input.version \o " may not be fully supported">>
    ELSE <<>>

\* the inner forEach: the fields of one page, from field k on
RECURSIVE checkFields(_, _, _, _)
checkFields(fields, k, pageIndex, acc) ==
    IF k > Len(fields) THEN acc
    ELSE LET field == fields[k]
             where == ToString(k - 1) \o " on page " \o ToString(pageIndex)
             typed == IF LacksText(field, "type")
                      THEN [acc EXCEPT !.errors =
                               Append(@, "Field " \o where \o " has no type")]
                      ELSE IF field.type \notin SUPPORTED_FIELD_TYPES
                      THEN [acc EXCEPT !.unknownTypes =
                               IF field.type \in Range(@) THEN @
                               ELSE Append(@, field.type)]
                      ELSE acc
             named == IF LacksText(field, "name")
                      THEN [typed EXCEPT !.errors =
                               Append(@, "Field " \o where \o " has no name")]
                      ELSE typed
         IN checkFields(fields, k + 1, pageIndex, named)

\* the outer forEach: the pages from page k on
RECURSIVE checkPages(_, _, _)
checkPages(pages, k, acc) ==
    IF k > Len(pages) THEN acc
    ELSE LET page == pages[k]
         IN checkPages(pages, k + 1,
               IF LacksValue(page, "fields") \/ ~isArray(page.fields)
               THEN [acc EXCEPT !.errors =
                        Append(@, "Page " \o ToString(k - 1) \o " has no fields array")]
               ELSE checkFields(page.fields.array, 1, k - 1, acc))

\* mutant: an unsupported field type makes the input invalid
validateSchemaStrict(input) ==
    IF LacksValue(input, "pages") \/ ~isArray(input.pages)
    THEN [valid |-> FALSE, errors |-> <<"Schema must have a 'pages' array">>,
          warnings |-> versionWarnings(input), unknownFieldTypes |-> <<>>]
    ELSE LET acc == checkPages(input.pages.array, 1,
                               [errors |-> <<>>, unknownTypes |-> <<>>])
         IN [valid |-> acc.errors = <<>> /\ acc.unknownTypes = <<>>,
             errors |-> acc.errors,
             warnings |-> versionWarnings(input),
             unknownFieldTypes |-> acc.unknownTypes]

validateSchema(input) ==
    IF LacksValue(input, "pages") \/ ~isArray(input.pages)
    THEN [valid |-> FALSE, errors |-> <<"Schema must have a 'pages' array">>,
          warnings |-> versionWarnings(input), unknownFieldTypes |-> <<>>]
    ELSE LET acc == checkPages(input.pages.array, 1,
                               [errors |-> <<>>, unknownTypes |-> <<>>])
         IN [valid |-> Len(acc.errors) = 0,
             errors |-> acc.errors,
             warnings |->
                versionWarnings(input)
                \o (IF Len(acc.unknownTypes) > 0
                    THEN <<"Schema contains unsupported field types: "
                             \o JoinTypes(acc.unknownTypes)>>
                    ELSE <<>>),
             unknownFieldTypes |-> acc.unknownTypes]

-----------------------------------------------------------------------------
(* SpecValidate: the pure functions of useValidation on drawn inputs *)

OptionValues ==
    [minLength |-> 5, maxLength |-> 8, min |-> 18, max |-> 120,
     pattern |-> "^[a-z]+$", email |-> TRUE, url |-> TRUE, phone |-> TRUE]

ValidateTags == {"notX", "warnShort", "bare"}

ValidationSpecs ==
    LET builtin == {[k \in D |-> OptionValues[k]] : D \in SUBSET DOMAIN OptionValues}
    IN builtin \cup {("validate" :> tag) @@ v : tag \in ValidateTags, v \in builtin}

ProbeFields ==
    {[name |-> "f", label |-> "Field", required |-> r] : r \in BOOLEAN}
    \cup {[name |-> "f", label |-> "Field", required |-> r, validation |-> v] :
             r \in BOOLEAN, v \in ValidationSpecs}

ProbeValues ==
    {Undefined, Null, emptyString, Str(<<"x">>),
     Str(<<"a", "b", "c", "d", "e", "f">>),
     Str(<<"a", "b", "c", "d", "e", "f", "g", "h", "i">>),
     Str(<<"a", "@", "b", ".", "c", "d">>),
     Str(<<"x", ":", "a", "b", "c", "d">>),
     Str(<<"h", "t", "t", "p", ":", "/", "/", "a">>),
     Str(<<"h", "t", "t", "p", ":", "/", "/">>),
     Str(<<"1", "5">>),
     Str(<<"1", "2", "3", "4", "5">>),
     Str(<<"1", "2", "3", "4", "5", "6", "7", "8", "9", "0">>),
     Str(<<"(", "1", "2", "3", ")", " ", "4", "5", "6", "-", "7", "8", "9", "0">>),
     Num(15), Num(30), Num(121)}

Severities == {"error", "warning", "info"}

\* the ValidationResult objects a callback may return
StructuredOutcomes ==
    LET base == {[valid |-> v] : v \in BOOLEAN}
        withMessage == base \cup {("message" :> "Not good") @@ o : o \in base}
        withSeverity ==
            withMessage \cup {("severity" :> sv) @@ o : sv \in Severities, o \in withMessage}
    IN withSeverity \cup {("blocking" :> b) @@ o : b \in BOOLEAN, o \in withSeverity}

ProbeOutcomes == {JSTrue, JSString("Already taken")} \cup StructuredOutcomes

ProbeRules ==
    {[fields |-> <<"start_date", "end_date">>, validate |-> "endAfterStart"],
     [fields |-> <<"start_date", "end_date">>, validate |-> "sameYearWarning"],
     [fields |-> <<"end_date">>, validate |-> "endGiven"]}

ProbeRuleLists ==
    {<<>>} \cup {<<r>> : r \in ProbeRules}
           \cup {<<r1, r2>> : r1 \in ProbeRules, r2 \in ProbeRules}

ProbeDates ==
    {Str(<<"2", "0", "2", "5", "-", "0", "1", "-", "1", "0">>),
     Str(<<"2", "0", "2", "5", "-", "0", "1", "-", "0", "1">>),
     Str(<<"2", "0", "2", "6", "-", "0", "1", "-", "0", "1">>),
     emptyString}

ProbeDateValues ==
    {EmptyMap} \cup {[start_date |-> a] : a \in ProbeDates}
               \cup {[start_date |-> a, end_date |-> b] : a \in ProbeDates, b \in ProbeDates}

\* the schemas handed to validateSchema
ProbeSchemaFields ==
    {[label |-> "Field"]} \cup {[type |-> t] : t \in {"", "INPUT", "PHONE", "OTP"}}
    \cup {[name |-> "a"]}
    \cup {[type |-> t, name |-> n] : t \in {"INPUT", "PHONE", "OTP"}, n \in {"", "a"}}

ProbeSchemaPages ==
    {[id |-> "p"], [id |-> "p", fields |-> Str(<<"x">>)],
     [id |-> "p", fields |-> [array |-> <<>>]]}
    \cup {[id |-> "p", fields |-> [array |-> <<f>>]] : f \in ProbeSchemaFields}
    \cup {[id |-> "p", fields |-> [array |-> <<f, g>>]] :
             f \in ProbeSchemaFields, g \in ProbeSchemaFields}

ProbeSchemaBodies ==
    {EmptyMap, [pages |-> Null], [pages |-> Str(<<"x">>)], [pages |-> [array |-> <<>>]]}
    \cup {[pages |-> [array |-> <<p>>]] : p \in ProbeSchemaPages}
    \cup {[pages |-> [array |-> <<p, q>>]] :
             p \in ProbeSchemaPages,
             q \in {[id |-> "p"], [id |-> "p", fields |-> [array |-> <<[type |-> "PHONE", name |-> "a"]>>]],
                    [id |-> "p", fields |-> [array |-> <<[type |-> "OTP"]>>]]}}

ProbeSchemas ==
    ProbeSchemaBodies
    \cup {("version" :> v) @@ b : v \in {"", "1.0", "2.0"}, b \in ProbeSchemaBodies}

InitValidate ==
    /\ \/ /\ probe \in {[fn |-> "runSyncValidation", field |-> f, value |-> v] :
                            f \in ProbeFields, v \in ProbeValues}
          /\ StoreIs(InitialStore(EmptyMap, MaxHistorySize))
       \/ /\ probe \in {[fn |-> "normalizeResult", result |-> o] : o \in ProbeOutcomes}
          /\ StoreIs(InitialStore(EmptyMap, MaxHistorySize))
       \/ /\ probe \in {[fn |-> "validateSchema", schema |-> sc] : sc \in ProbeSchemas}
          /\ StoreIs(InitialStore(EmptyMap, MaxHistorySize))
       \/ /\ probe \in {[fn |-> "validateCrossField", crossField |-> rules] :
                            rules \in ProbeRuleLists}
          /\ \E vals \in ProbeDateValues :
                StoreIs(InitialStore(vals, MaxHistorySize))
    /\ ret = NoProbe
    /\ EngineIdle
    /\ HooksIdle
    /\ lastOp = [op |-> "mount"]

CallRunSyncValidation ==
    /\ probe.fn = "runSyncValidation"
    /\ ret = NoProbe
    /\ ret' = [fn |-> probe.fn,
               result |-> runSyncValidation(probe.field, probe.value, values)]
    /\ UNCHANGED <<storeVars, engineVars, hookVars, lastOp, probe>>

CallNormalizeResult ==
    /\ probe.fn = "normalizeResult"
    /\ ret = NoProbe
    /\ ret' = [fn |-> probe.fn, result |-> normalizeResult(probe.result)]
    /\ UNCHANGED <<storeVars, engineVars, hookVars, lastOp, probe>>

CallValidateCrossField ==
    /\ probe.fn = "validateCrossField"
    /\ ret = NoProbe
    /\ ret' = [fn |-> probe.fn,
               result |-> validateCrossField(probe.crossField, values)]
    /\ UNCHANGED <<storeVars, engineVars, hookVars, lastOp, probe>>

CallValidateSchema ==
    /\ probe.fn = "validateSchema"
    /\ ret = NoProbe
    /\ ret' = [fn |-> probe.fn, result |-> validateSchema(probe.schema)]
    /\ UNCHANGED <<storeVars, engineVars, hookVars, lastOp, probe>>

NextValidate ==
    \/ CallRunSyncValidation
    \/ CallValidateSchema
    \/ CallNormalizeResult
    \/ CallValidateCrossField

SpecValidate == InitValidate /\ [][NextValidate]_vars


-----------------------------------------------------------------------------
(* Spec: the mounted Renderer, driven by its user, its timers and the       *)
(* promises of validateAsync                                                *)

\* handlers that may be suspended at once
MaxTasks == 2

\* what the user types into a field
UserTexts ==
    [email |-> {<<>>, memberEmail.s},
     promo |-> {<<"x">>, memberEmail.s},
     notes |-> {<<"x">>}]

\* how a validateAsync promise may settle
AsyncOutcomes ==
    {JSTrue,
     JSString("Already taken"),
     [valid |-> FALSE, message |-> "Looks like a typo", severity |-> "warning"],
     Rejection(FALSE, "")}

\* the initialValues prop of the mounted form
MountProps == {EmptyMap, [promo |-> Str(<<"x">>)]}

InitRenderer ==
    /\ \E prop \in MountProps : StoreIs(InitialStore(prop, 1))
    /\ EngineIdle
    /\ HooksIdle
    /\ ProbeIdle
    /\ lastOp = [op |-> "mount"]

CommitWorld(w, op) ==
    /\ Commit(w.store)
    /\ cache' = w.cache
    /\ pending' = w.pending
    /\ tasks' = w.tasks
    /\ hungChanges' = w.hungChanges
    /\ currentPageIndex' = w.currentPageIndex
    /\ lastOp' = [op |-> op, done |-> w.done, rejected |-> w.rejected,
                  invoked |-> w.invoked]
    /\ UNCHANGED <<hookVars, probeVars>>

\* renderPageDefault reads page.title: past the last page the render throws
PageRenders == currentPageIndex \in 0..(Len(schema.pages) - 1)

currentPage == schema.pages[currentPageIndex + 1]

\* renderFields: a field whose showIf function returns false is not rendered
Shown(field) ==
    IF "showIf" \in DOMAIN field THEN ApplyShowIf(field.showIf, values) ELSE TRUE

\* e.target.value of the default input, <input type="text">: a string
inputValue(text) == Str(text)

\* value || '' of the default input, for the strings and undefined held here
Displayed(value) == IF value.t = "string" THEN value ELSE emptyString

IsTimerOf(task, fieldId) == task.kind = "timer" /\ task.field = fieldId

\* mutant: the timer of an earlier call is left running
clearTimeoutKeeps(timers, fieldId) == timers

\* validateFieldDebounced: the timer of an earlier call for the field is cleared
clearTimeout(timers, fieldId) ==
    SelectSeq(timers, LAMBDA t : ~IsTimerOf(t, fieldId))

\* the keys whose cached result is within its ttl
FreshKeys == {key \in DOMAIN cache : ~cache[key].expired}

\* the results of the fields depending on fieldId that are in the cache
DependentKeys(fieldId) ==
    {key \in FreshKeys : key[1] \in Range(dependentFields(fieldId))}

\* the user edits a rendered input: handleFieldChange up to its first await;
\* the timer carries the value of the handler's closure and notes which
\* results of its dependents were in the cache when the value changed
FieldChange(fieldId, text) ==
    /\ PageRenders
    /\ \E k \in 1..Len(currentPage.fields) :
          currentPage.fields[k].name = fieldId /\ Shown(currentPage.fields[k])
    /\ Str(text) # Displayed(Get(values, fieldId))
    /\ LET remaining == clearTimeout(tasks, fieldId)
       IN /\ Len(remaining) < MaxTasks
          /\ CommitWorld(
                [World EXCEPT
                    !.store = setValue(@, fieldId, Str(text), "user"),
                    !.tasks = Append(remaining,
                                     Task("timer", fieldId, 0, values, <<>>)
                                     @@ [value |-> Str(text),
                                         cachedAtChange |-> DependentKeys(fieldId)]),
                    !.hungChanges = IF Len(remaining) < Len(tasks)
                                    THEN @ \cup {fieldId} ELSE @],
                "change")

\* the oldest debounce timer fires (every field here has the default delay)
DebounceFire ==
    \E k \in 1..Len(tasks) :
        /\ tasks[k].kind = "timer"
        /\ \A j \in 1..(k - 1) : tasks[j].kind # "timer"
        /\ LET task == tasks[k]
               r == validateField([World EXCEPT !.tasks = SubSeq(tasks, 1, k - 1)],
                                  task.field, task.allValues)
               started == Task("debounced", task.field, 0, task.allValues, <<r.call>>)
                          @@ [cachedAtChange |-> task.cachedAtChange]
               w == IF r.call.settled
                    THEN changeContinue(r.w, started)
                    ELSE Suspend(r.w, started)
           IN CommitWorld([w EXCEPT !.tasks = @ \o SubSeq(tasks, k + 1, Len(tasks))],
                          "timer")

\* validatePage(pageId): the fields of the first page with that id
pageFields(pageId) ==
    IF \E k \in 1..Len(schema.pages) : schema.pages[k].id = pageId
    THEN schema.pages[CHOOSE k \in 1..Len(schema.pages) :
                         /\ schema.pages[k].id = pageId
                         /\ \A j \in 1..(k - 1) : schema.pages[j].id # pageId].fields
    ELSE <<>>

\* the user presses Next: handleNextPage
NextClick ==
    /\ PageRenders
    /\ currentPageIndex < Len(schema.pages) - 1
    /\ LET r == validateEach(World, NamesOf(pageFields(currentPage.id)), values, <<>>)
           task == Task("next", "", currentPageIndex, values, r.calls)
       IN /\ (IF AllSettled(r.calls) THEN TRUE ELSE Len(tasks) < MaxTasks)
          /\ CommitWorld(IF AllSettled(r.calls)
                         THEN nextContinue(r.w, task)
                         ELSE Suspend(r.w, task),
                         "next")

\* the user presses Previous: handlePrevPage
PrevClick ==
    /\ PageRenders
    /\ currentPageIndex # 0
    /\ CommitWorld([World EXCEPT !.currentPageIndex =
                        IF currentPageIndex > 0 THEN @ - 1 ELSE @],
                   "prev")

\* the user presses Submit: handleSubmit
SubmitClick ==
    /\ PageRenders
    /\ ~(currentPageIndex < Len(schema.pages) - 1)
    /\ LET r == validateEach(World, fieldMapKeys, values, <<>>)
           task == Task("submit", "", 0, values, r.calls)
       IN /\ (IF AllSettled(r.calls) THEN TRUE ELSE Len(tasks) < MaxTasks)
          /\ CommitWorld(IF AllSettled(r.calls)
                         THEN submitContinue(r.w, task)
                         ELSE Suspend(r.w, task),
                         "submit")

\* a promise returned by validateAsync settles
AsyncSettle(key, outcome) ==
    /\ key \in pending
    /\ CommitWorld(settle(World, key, outcome), "settle")

\* the clock passes the ttl of a cache entry
TtlElapses(key) ==
    /\ key \in DOMAIN cache
    /\ ~cache[key].expired
    /\ CommitWorld([World EXCEPT !.cache[key].expired = TRUE], "clock")

Next ==
    \/ \E fieldId \in DOMAIN UserTexts : \E text \in UserTexts[fieldId] :
          FieldChange(fieldId, text)
    \/ DebounceFire
    \/ NextClick
    \/ PrevClick
    \/ SubmitClick
    \/ \E key \in pending, outcome \in AsyncOutcomes : AsyncSettle(key, outcome)
    \/ \E key \in DOMAIN cache : TtlElapses(key)

Spec == InitRenderer /\ [][Next]_vars

-----------------------------------------------------------------------------
(* SpecSuggest: the suggestion functions of the store, on suggestion states *)
(* stored through setSuggestionState, with the clock and the sweep          *)

SuggestKeys == {"notes"}

TypedValues == {Str(<<"x">>), Str(<<"y">>)}

SuggestedResults ==
    {WithConfidence(SuggestionResult(Str(<<"s">>)), 90),
     SuggestionResult(Str(<<"x">>))}

\* the operations that ran last, oldest first, at most three
Trail(op) ==
    LET all == Append(IF "trail" \in DOMAIN lastOp THEN lastOp.trail ELSE <<>>, op)
    IN IF Len(all) > 3 THEN Tail(all) ELSE all

InitSuggest ==
    /\ \E prop \in {EmptyMap, [notes |-> Str(<<"x">>)]} :
          StoreIs(InitialStore(prop, 1))
    /\ EngineIdle
    /\ HooksIdle
    /\ ProbeIdle
    /\ lastOp = [op |-> "mount"]

SuggestOp(st, op, fieldId) ==
    /\ Commit(st)
    /\ lastOp' = [op |-> op, fieldId |-> fieldId,
                  oldValue |-> Get(values, fieldId), trail |-> Trail(op)]
    /\ UNCHANGED <<engineVars, hookVars, probeVars>>

\* the user types into the field
SuggestSetValue(fieldId, value) ==
    /\ Commit(setValue(Store, fieldId, value, "user"))
    /\ lastOp' = [op |-> "setValue", fieldId |-> fieldId, value |-> value,
                  oldValue |-> Get(values, fieldId), source |-> "user",
                  trail |-> Trail("setValue")]
    /\ UNCHANGED <<engineVars, hookVars, probeVars>>

\* a hook stores the state of a suggestion that arrived for the field
SuggestionStored(fieldId, result) ==
    /\ fieldId \in DOMAIN fieldMap
    /\ SuggestOp(setSuggestionState(Store, fieldId,
                     createSuggestionState(result, Get(values, fieldId))),
                 "setSuggestionState", fieldId)

SuggestAccept(fieldId) ==
    /\ hasSuggestion(Store, fieldId)
    /\ SuggestOp(acceptSuggestion(Store, fieldId), "acceptSuggestion", fieldId)

SuggestDismiss(fieldId) ==
    /\ hasSuggestion(Store, fieldId)
    /\ SuggestOp(dismissSuggestion(Store, fieldId), "dismissSuggestion", fieldId)

SuggestToggle(fieldId) ==
    /\ hasSuggestion(Store, fieldId)
    /\ SuggestOp(toggleValue(Store, fieldId), "toggleValue", fieldId)

SuggestResetToOriginal(fieldId) ==
    /\ hasSuggestion(Store, fieldId)
    /\ SuggestOp(resetToOriginalSuggestion(Store, fieldId),
                 "resetToOriginalSuggestion", fieldId)

SuggestMarkAsReviewed(fieldId) ==
    /\ hasSuggestion(Store, fieldId)
    /\ SuggestOp(markAsReviewed(Store, fieldId), "markAsReviewed", fieldId)

\* the clock passes expiresAt of the field's suggestion
SuggestionExpires(fieldId) ==
    /\ hasSuggestion(Store, fieldId)
    /\ "expired" \in DOMAIN suggestions[fieldId]
    /\ ~suggestions[fieldId].expired
    /\ SuggestOp([Store EXCEPT !.suggestions[fieldId].expired = TRUE],
                 "clock", fieldId)

\* the 60 s interval of the Renderer fires
Sweep ==
    /\ Commit(clearExpiredSuggestions(Store))
    /\ lastOp' = [op |-> "sweep", expired |-> expiredFields(Store),
                  trail |-> Trail("sweep")]
    /\ UNCHANGED <<engineVars, hookVars, probeVars>>

NextSuggest ==
    \/ \E fieldId \in SuggestKeys, value \in TypedValues :
          SuggestSetValue(fieldId, value)
    \/ \E fieldId \in SuggestKeys, result \in SuggestedResults :
          SuggestionStored(fieldId, result)
    \/ \E fieldId \in SuggestKeys : SuggestAccept(fieldId)
    \/ \E fieldId \in SuggestKeys : SuggestDismiss(fieldId)
    \/ \E fieldId \in SuggestKeys : SuggestToggle(fieldId)
    \/ \E fieldId \in SuggestKeys : SuggestResetToOriginal(fieldId)
    \/ \E fieldId \in SuggestKeys : SuggestMarkAsReviewed(fieldId)
    \/ \E fieldId \in SuggestKeys : SuggestionExpires(fieldId)
    \/ Sweep

SpecSuggest == InitSuggest /\ [][NextSuggest]_vars

-----------------------------------------------------------------------------
(* SpecRequest: the Renderer in a host that passes onSuggest, the user      *)
(* typing into the promo field, whose validation and whose dependents'      *)
(* validation settle synchronously                                          *)

\* the largest number of handlers suspended at once
MaxRequests == 2

RequestFields == {"promo"}

RequestTexts == {<<>>, <<"x">>}

\* how the promise onSuggest returns may settle; confidences in hundredths
SuggestOutcomes ==
    {WithConfidence(SuggestionResult(Str(<<"s">>)), 90),
     WithConfidence(SuggestionResult(Str(<<"s">>)), 75),
     WithConfidence(SuggestionResult(Str(<<"s">>)), 50),
     SuggestionResult(Str(<<"s">>)),
     Rejection(FALSE, "")}

InitRequest ==
    /\ \E prop \in {EmptyMap, [notes |-> Str(<<"x">>)]} :
          StoreIs(InitialStore(prop, 1))
    /\ EngineIdle
    /\ HooksIdle
    /\ ProbeIdle
    /\ lastOp = [op |-> "mount"]

CommitRequest(r, st, op) ==
    /\ Commit(st)
    /\ suggestPending' = r.pending
    /\ suggestTasks' = r.tasks
    /\ lastOp' = [op |-> op, invoked |-> r.invoked, returned |-> r.returned,
                  applied |-> r.applied, rejected |-> r.rejected]
    /\ UNCHANGED <<engineVars, currentJob, pollTimer, processedUpdates,
                   isBlocking, jobCalls, saveCalls, props, probeVars>>

\* the user edits the rendered input: handleFieldChange up to its first await
RequestFieldChange(fieldId, text) ==
    /\ PageRenders
    /\ \E k \in 1..Len(currentPage.fields) :
          currentPage.fields[k].name = fieldId /\ Shown(currentPage.fields[k])
    /\ Str(text) # Displayed(Get(values, fieldId))
    /\ LET remaining == SelectSeq(suggestTasks, LAMBDA t : ~IsTimerOf(t, fieldId))
       IN /\ Len(remaining) < MaxRequests
          /\ CommitRequest(
                [RequestWorld EXCEPT
                    !.tasks = Append(remaining, [kind |-> "timer", field |-> fieldId,
                                                 newValue |-> Str(text)])],
                setValue(Store, fieldId, Str(text), "user"),
                "change")

\* the oldest debounce timer fires: the field is validated, the result is
\* dropped, and the handler goes on to the suggestions
RequestDebounceFire ==
    \E k \in 1..Len(suggestTasks) :
        /\ suggestTasks[k].kind = "timer"
        /\ \A j \in 1..(k - 1) : suggestTasks[j].kind # "timer"
        /\ LET task == suggestTasks[k]
               r == suggestionsHandleFieldChange(
                        [RequestWorld EXCEPT !.tasks = SubSeq(suggestTasks, 1, k - 1)],
                        Store, task.field, task.newValue)
           IN /\ validateField(World, task.field, values).call.settled
              /\ AllSettled(validateEach(World, dependentFields(task.field),
                                         values, <<>>).calls)
              /\ CommitRequest(
                    [r EXCEPT !.tasks = @ \o SubSeq(suggestTasks, k + 1, Len(suggestTasks))],
                    Store, "timer")

\* a promise returned by onSuggest settles
SuggestSettle(fieldId, outcome) ==
    /\ fieldId \in suggestPending
    /\ CommitRequest(settleSuggestion(RequestWorld, Store, fieldId, outcome),
                     Store, "settle")

NextRequest ==
    \/ \E fieldId \in RequestFields, text \in RequestTexts :
          RequestFieldChange(fieldId, text)
    \/ RequestDebounceFire
    \/ \E fieldId \in suggestPending, outcome \in SuggestOutcomes :
          SuggestSettle(fieldId, outcome)
    \/ \E fieldId \in {f \in DOMAIN fieldMap : declaresSuggest(f)} :
          SuggestionStored(fieldId, WithConfidence(SuggestionResult(Str(<<"s">>)), 90))
    \/ \E fieldId \in {f \in DOMAIN fieldMap : declaresSuggest(f)} :
          SuggestionExpires(fieldId)

SpecRequest == InitRequest /\ [][NextRequest]_vars

-----------------------------------------------------------------------------
(* SpecJob: useBackgroundJob in a host that passes onBulkSuggest and        *)
(* onJobProgress, with fields marked expecting through setSuggestionState   *)

\* the largest number of host calls in flight
MaxJobCalls == 2

JobFields == <<"promo", "notes">>

\* what onBulkSuggest may resolve to
BulkResponses ==
    {[immediate |-> [suggestions |-> [notes |-> SuggestionResult(Str(<<"s">>))]]],
     [job |-> [jobId |-> "j1", affectedFields |-> JobFields]],
     EmptyMap,
     Rejection(FALSE, "")}

\* what onJobProgress(jobId) may resolve to
JobReports(jobId) ==
    {[jobId |-> jobId, status |-> "processing", progress |-> 50,
      partialResults |-> [promo |-> Str(<<"s">>)],
      fieldsCompleted |-> <<"promo">>, fieldsPending |-> <<"notes">>,
      newUpdates |-> << [fieldId |-> "promo", value |-> Str(<<"s">>),
                         confidence |-> 90, timestamp |-> "t1"] >>],
     [jobId |-> jobId, status |-> "completed", progress |-> 100,
      partialResults |-> [promo |-> Str(<<"s">>)],
      fieldsCompleted |-> <<"promo">>, fieldsPending |-> <<"notes">>],
     [jobId |-> jobId, status |-> "failed", progress |-> 50,
      partialResults |-> EmptyMap,
      fieldsCompleted |-> <<>>, fieldsPending |-> JobFields,
      errors |-> [notes |-> "no source"]],
     Rejection(FALSE, "")}

\* the props a host mounts the Renderer with
JobProps ==
    {PlainProps,
     [initialJobId |-> "none", blocking |-> TRUE],
     [initialJobId |-> "j1", blocking |-> TRUE]}

\* what the steps so far did: the jobs whose terminal poll was processed,
\* the jobs cancelled here, how often resumeJob was called (2: more than
\* once), and the updates that passed the processedUpdates guard
JobLog ==
    IF "terminated" \in DOMAIN lastOp
    THEN [terminated |-> lastOp.terminated, cancelled |-> lastOp.cancelled,
          resumes |-> lastOp.resumes, applied |-> lastOp.applied]
    ELSE [terminated |-> {}, cancelled |-> {}, resumes |-> 0, applied |-> {}]

\* the first render runs the resume effect
InitJob ==
    /\ \E prop \in {EmptyMap, [notes |-> Str(<<"x">>)]} :
          StoreIs(InitialStore(prop, 1))
    /\ EngineIdle
    /\ suggestPending = {}
    /\ suggestTasks = <<>>
    /\ currentJob = NoJob
    /\ pollTimer = "none"
    /\ processedUpdates = {}
    /\ isBlocking = FALSE
    /\ saveCalls = 0
    /\ props \in JobProps
    /\ jobCalls = resumeEffect([calls |-> <<>>, resumed |-> <<>>, render |-> TRUE],
                               props.initialJobId).calls
    /\ ProbeIdle
    /\ lastOp = [op |-> "mount", terminated |-> {}, cancelled |-> {},
                 applied |-> {},
                 resumes |-> IF props.initialJobId = "none" THEN 0 ELSE 1]

\* the calls in flight settle in any order; they are kept by kind
InFlight(calls) ==
    SelectSeq(calls, LAMBDA c : c.kind = "bulk")
    \o SelectSeq(calls, LAMBDA c : c.kind = "poll")
    \o SelectSeq(calls, LAMBDA c : c.kind = "cancel")
    \o SelectSeq(calls, LAMBDA c : c.kind = "resume")

\* the step's state updates are committed; when they made the Renderer
\* render again, the resume effect runs
CommitJob(j, st, record) ==
    LET rendered == IF st = Store THEN j ELSE [j EXCEPT !.render = TRUE]
        final == resumeEffect(rendered, props.initialJobId)
        terminal == IF "terminalJob" \in DOMAIN record THEN {record.terminalJob} ELSE {}
        cancelled == IF "cancelledJob" \in DOMAIN record THEN {record.cancelledJob} ELSE {}
        count == JobLog.resumes + Len(final.resumed)
    IN /\ Len(final.calls) <= MaxJobCalls
       /\ Commit(st)
       /\ currentJob' = final.currentJob
       /\ pollTimer' = final.pollTimer
       /\ processedUpdates' = final.processedUpdates
       /\ isBlocking' = final.isBlocking
       /\ jobCalls' = InFlight(final.calls)
       /\ lastOp' = record @@
                    [polled |-> j.polled,
                     resumed |-> final.resumed,
                     late |-> {id \in Range(j.polled) : id \in JobLog.terminated}
                              \cup {id \in Range(final.resumed) :
                                       id \in JobLog.terminated \cup terminal},
                     terminated |-> JobLog.terminated \cup terminal,
                     cancelled |-> JobLog.cancelled \cup cancelled,
                     processedNow |-> j.processed,
                     applied |-> JobLog.applied \cup j.processed,
                     resumes |-> IF count > 2 THEN 2 ELSE count]
       /\ UNCHANGED <<engineVars, suggestPending, suggestTasks, saveCalls, props,
                      probeVars>>

Without(calls, k) == SubSeq(calls, 1, k - 1) \o SubSeq(calls, k + 1, Len(calls))

\* the host calls startBulkSuggest(files): up to its await
StartBulkSuggest(blocking) ==
    /\ blocking = props.blocking
    /\ CommitJob([JobWorld EXCEPT !.calls = Append(@, [kind |-> "bulk",
                                                       blocking |-> blocking])],
                 Store, [op |-> "startBulkSuggest"])

\* the promise of onBulkSuggest settles; a host names a new job by a new id
BulkResponds(k, response) ==
    /\ jobCalls[k].kind = "bulk"
    /\ LET j == startBulkSuggest([JobWorld EXCEPT !.calls = Without(@, k)],
                                  jobCalls[k], response)
           affected == IF ~IsRejection(response) /\ "job" \in DOMAIN response
                          /\ "immediate" \notin DOMAIN response
                       THEN response.job.affectedFields ELSE <<>>
       IN /\ affected # <<>> =>
                /\ response.job.jobId \notin JobLog.terminated \cup JobLog.cancelled
                /\ response.job.jobId # props.initialJobId
                /\ currentJob = NoJob
          /\ CommitJob(j, markExpecting(Store, affected),
                       [op |-> "bulkResponse", response |-> response,
                        affectedFields |-> affected])

\* the polling interval fires
PollTick ==
    /\ pollTimer # "none"
    /\ CommitJob(pollJob(JobWorld, pollTimer), Store, [op |-> "tick"])

\* a promise of onJobProgress that pollJob awaits settles
PollResponds(k, report) ==
    /\ jobCalls[k].kind = "poll"
    /\ LET j == pollContinue([JobWorld EXCEPT !.calls = Without(@, k)],
                             jobCalls[k], report)
           terminal == ~IsRejection(report) /\ report.status \in TerminalStatuses
           record == [op |-> "poll", report |-> report, jobId |-> jobCalls[k].jobId,
                      wasExpecting |->
                         IF terminal
                         THEN {f \in Range(report.fieldsPending) :
                                  /\ hasSuggestion(Store, f)
                                  /\ suggestions[f].status = "expecting"}
                         ELSE {}]
       IN CommitJob(j, IF terminal THEN resolvePending(Store, report) ELSE Store,
                    IF terminal
                    THEN [terminalJob |-> jobCalls[k].jobId] @@ record
                    ELSE record)

\* the user presses Cancel, which is rendered while the job is active
CancelClick ==
    /\ currentJob # NoJob
    /\ currentJob.status \in ActiveStatuses
    /\ CommitJob(cancelJob(JobWorld, currentJob.jobId), Store, [op |-> "cancel"])

\* the promise of onJobCancel settles
CancelResponds(k, outcome) ==
    /\ jobCalls[k].kind = "cancel"
    /\ LET j == cancelContinue([JobWorld EXCEPT !.calls = Without(@, k)],
                               jobCalls[k], outcome)
           record == [op |-> "cancelResponse", outcome |-> outcome,
                      jobId |-> jobCalls[k].jobId]
       IN CommitJob(j, Store,
                    IF ~IsRejection(outcome) /\ j.currentJob # NoJob
                       /\ j.currentJob.jobId = jobCalls[k].jobId
                    THEN [cancelledJob |-> jobCalls[k].jobId] @@ record
                    ELSE record)

\* the promise of onJobProgress that resumeJob awaits settles
ResumeResponds(k, report) ==
    /\ jobCalls[k].kind = "resume"
    /\ CommitJob(resumeContinue([JobWorld EXCEPT !.calls = Without(@, k)],
                                jobCalls[k], report, props.blocking),
                 Store,
                 [op |-> "resumeResponse", report |-> report,
                  jobId |-> jobCalls[k].jobId, timerBefore |-> pollTimer])

\* a field of the current job is marked expecting through setSuggestionState
ExpectingStored(fieldId) ==
    /\ currentJob # NoJob
    /\ currentJob.status \notin TerminalStatuses
    /\ fieldId \in Range(currentJob.fieldsPending)
    /\ ~hasSuggestion(Store, fieldId)
    /\ CommitJob(JobWorld,
                 setSuggestionState(Store, fieldId, expectingState(Store, fieldId)),
                 [op |-> "setSuggestionState", fieldId |-> fieldId])

CallsOf(kind) == {c \in 1..Len(jobCalls) : jobCalls[c].kind = kind}

NextJob ==
    \/ \E blocking \in BOOLEAN : StartBulkSuggest(blocking)
    \/ \E k \in CallsOf("bulk"), response \in BulkResponses : BulkResponds(k, response)
    \/ PollTick
    \/ \E k \in CallsOf("poll") :
          \E report \in JobReports(jobCalls[k].jobId) : PollResponds(k, report)
    \/ CancelClick
    \/ \E k \in CallsOf("cancel"), outcome \in {JSTrue, Rejection(FALSE, "")} :
          CancelResponds(k, outcome)
    \/ \E k \in CallsOf("resume") :
          \E report \in JobReports(jobCalls[k].jobId) : ResumeResponds(k, report)
    \/ \E fieldId \in Range(JobFields) : ExpectingStored(fieldId)

SpecJob == InitJob /\ [][NextJob]_vars

-----------------------------------------------------------------------------
(* SpecDraft: the store in a Renderer whose host enables autoSave and       *)
(* passes onSaveDraft                                                       *)

\* the largest number of onSaveDraft calls in flight
MaxSaveCalls == 2

InitDraft ==
    /\ \E prop \in {EmptyMap, [email |-> memberEmail]} :
          StoreIs(InitialStore(prop, MaxHistorySize))
    /\ EngineIdle
    /\ HooksIdle
    /\ ProbeIdle
    /\ lastOp = [op |-> "mount"]

\* the host calls markClean through formStateRef
StoreMarkClean ==
    /\ Commit(markClean(Store))
    /\ lastOp' = [op |-> "markClean"]
    /\ UNCHANGED <<engineVars, hookVars, probeVars>>

\* the Renderer stores a validation result, or removes it
StoreSetFieldValidation(fieldId, validation) ==
    /\ Commit(setFieldValidation(Store, fieldId, validation))
    /\ lastOp' = [op |-> "setFieldValidation", fieldId |-> fieldId]
    /\ UNCHANGED <<engineVars, hookVars, probeVars>>

\* the auto-save interval fires
AutoSaveTick ==
    /\ saveCalls < MaxSaveCalls
    /\ saveCalls' = IF isDirty(Store) THEN saveCalls + 1 ELSE saveCalls
    /\ lastOp' = [op |-> "autoSaveTick",
                  sent |-> IF isDirty(Store) THEN getChanges(Store) ELSE {}]
    /\ UNCHANGED <<storeVars, engineVars, suggestPending, suggestTasks,
                   currentJob, pollTimer, processedUpdates, isBlocking,
                   jobCalls, props, probeVars>>

\* a promise returned by onSaveDraft resolves
SaveResolves ==
    /\ saveCalls > 0
    /\ Commit(markClean(Store))
    /\ saveCalls' = saveCalls - 1
    /\ lastOp' = [op |-> "saveResolved"]
    /\ UNCHANGED <<engineVars, suggestPending, suggestTasks, currentJob,
                   pollTimer, processedUpdates, isBlocking, jobCalls, props,
                   probeVars>>

\* a promise returned by onSaveDraft rejects: the error is logged
SaveRejects ==
    /\ saveCalls > 0
    /\ saveCalls' = saveCalls - 1
    /\ lastOp' = [op |-> "saveRejected"]
    /\ UNCHANGED <<storeVars, engineVars, suggestPending, suggestTasks,
                   currentJob, pollTimer, processedUpdates, isBlocking,
                   jobCalls, props, probeVars>>

NextDraft ==
    \/ \E value \in StoreValues : StoreSetValue("email", value, "user")
    \/ \E validation \in {[valid |-> FALSE, message |-> "Too short"], Null} :
          StoreSetFieldValidation("email", validation)
    \/ SuggestionStored("email", SuggestionResult(memberEmail))
    \/ StoreUndo
    \/ StoreRedo
    \/ StoreReset
    \/ StoreMarkClean
    \/ AutoSaveTick
    \/ SaveResolves
    \/ SaveRejects

SpecDraft == InitDraft /\ [][NextDraft]_vars


-----------------------------------------------------------------------------
(* Claims about the store (SpecStore) *)

\* C3: a name is in dirtyFields exactly when its value differs from its
\* initial value, in every state the store reaches
DirtyInvariant ==
    \A f \in StoreKeys \cup FieldNames :
        f \in dirtyFields <=> Get(values, f) # Get(initialValues, f)

\* a field was edited and then written back to its initial value
DirtyThenCleanWitness ==
    /\ lastOp.op = "setValue"
    /\ lastOp.fieldId \in userEditedFields
    /\ lastOp.fieldId \notin dirtyFields
    /\ lastOp.dirtyCalls # <<>>
    /\ Len(history) >= 2

\* C4: a setValue(f, v) that directly follows a setValue(f, v) is a no-op: it
\* appends no history entry and fires no onDirtyStateChange
IdempotentValueWrite ==
    [][(/\ lastOp.op = "setValue"
        /\ lastOp'.op = "setValue"
        /\ lastOp'.fieldId = lastOp.fieldId
        /\ lastOp'.value = lastOp.value)
       => (/\ history' = history
           /\ historyIndex' = historyIndex
           /\ lastOp'.dirtyCalls = <<>>)]_vars

-----------------------------------------------------------------------------
(* Claims about the pure validation functions (SpecValidate) *)

CheckOrder ==
    <<"required", "minLength", "maxLength", "min", "max",
      "pattern", "email", "url", "phone", "validate">>

\* whether one built-in check, taken alone, rejects the value
CheckFails(check, field, value, allValues) ==
    LET v == field.validation
        on(k) == k \in DOMAIN v
        str == value.t = "string"
        num == value.t = "number"
    IN CASE check = "required" ->
                field.required /\ value \in {Undefined, Null, emptyString}
         [] check = "minLength" -> on("minLength") /\ str /\ Len(value.s) < v.minLength
         [] check = "maxLength" -> on("maxLength") /\ str /\ Len(value.s) > v.maxLength
         [] check = "min" -> on("min") /\ num /\ value.n < v.min
         [] check = "max" -> on("max") /\ num /\ value.n > v.max
         [] check = "pattern" -> on("pattern") /\ str /\ ~RegExpTest(v.pattern, value.s)
         [] check = "email" -> on("email") /\ str /\ ~emailRegexTest(value.s)
         [] check = "url" -> on("url") /\ str /\ ~URLParses(value.s)
         [] check = "phone" ->
                on("phone") /\ str
                /\ ~(phoneRegexTest(value.s) /\ DigitCount(value.s) >= 10)
         [] check = "validate" ->
                on("validate") /\ ApplyValidate(v.validate, value, allValues) # JSTrue
                /\ ~normalizeResult(ApplyValidate(v.validate, value, allValues)).valid

CheckMessage(check, field) ==
    CASE check = "required" -> "Field is required"
      [] check = "minLength" -> "Minimum 5 characters required"
      [] check = "maxLength" -> "Maximum 8 characters allowed"
      [] check = "min" -> "Minimum value is 18"
      [] check = "max" -> "Maximum value is 120"
      [] check = "pattern" -> "Invalid format"
      [] check = "email" -> "Invalid email address"
      [] check = "url" -> "Invalid URL"
      [] check = "phone" -> "Invalid phone number"
      [] check = "validate" ->
            normalizeResult(ApplyValidate(field.validation.validate,
                                          probe.value, values)).message

\* C5: runSyncValidation reports the first failing check in the order
\* required, length, range, pattern, email, URL, phone, custom validate, and
\* passes when none fails; required + minLength 5 on "" reports "required"
ValidationOrdering ==
    (ret.fn = "runSyncValidation" /\ "validation" \in DOMAIN probe.field) =>
        LET failing == {k \in 1..Len(CheckOrder) :
                           CheckFails(CheckOrder[k], probe.field, probe.value, values)}
        IN /\ failing = {} => ret.result.valid
           /\ failing # {} =>
                LET first == CHOOSE k \in failing : \A j \in failing : k <= j
                IN /\ ~ret.result.valid
                   /\ ret.result.message = CheckMessage(CheckOrder[first], probe.field)
           /\ (/\ probe.field.required
               /\ "minLength" \in DOMAIN probe.field.validation
               /\ probe.value = emptyString)
              => ret.result.message = "Field is required"

\* the required-and-too-short field of the claim has been validated
RequiredBeforeLengthWitness ==
    /\ ret.fn = "runSyncValidation"
    /\ "validation" \in DOMAIN probe.field
    /\ probe.field.required
    /\ "minLength" \in DOMAIN probe.field.validation
    /\ probe.value = emptyString
    /\ ~ret.result.valid

\* C6: normalizeResult maps true to a valid result, a string to a blocking
\* error with that message, and completes a structured result with severity
\* error when omitted and, when blocking is omitted, with blocking = (its
\* defaulted severity is error)
ResultNormalisation ==
    ret.fn = "normalizeResult" =>
        LET given == probe.result
            out == ret.result
        IN /\ given = JSTrue => out = [valid |-> TRUE]
           /\ "string" \in DOMAIN given =>
                out = [valid |-> FALSE, message |-> given.string,
                       severity |-> "error", blocking |-> TRUE]
           /\ "valid" \in DOMAIN given =>
                /\ out.valid = given.valid
                /\ out.severity = IF "severity" \in DOMAIN given
                                  THEN given.severity ELSE "error"
                /\ out.blocking = IF "blocking" \in DOMAIN given
                                  THEN given.blocking
                                  ELSE (out.severity = "error")

\* C9: validateCrossField returns, under every field of every failing rule,
\* that rule's normalised result, and no entry for a field of no failing rule
CrossFieldAttachesEveryRule ==
    ret.fn = "validateCrossField" =>
        LET rules == probe.crossField
            outcome(k) ==
                normalizeResult(ApplyRule(rules[k].validate,
                    [f \in Range(rules[k].fields) |-> Get(values, f)]))
            failed == {k \in 1..Len(rules) : ~outcome(k).valid}
        IN /\ \A k \in failed : \A f \in Range(rules[k].fields) :
                 f \in DOMAIN ret.result /\ ret.result[f] = outcome(k)
           /\ \A f \in DOMAIN ret.result : \E k \in failed : f \in Range(rules[k].fields)

-----------------------------------------------------------------------------
(* Claims about the mounted Renderer (Spec) *)

\* the handlers of the given kind that returned in the last step
Returned(kind) ==
    IF "done" \in DOMAIN lastOp
    THEN {lastOp.done[k] : k \in {j \in 1..Len(lastOp.done) : lastOp.done[j].kind = kind}}
    ELSE {}

BlockingIn(calls) ==
    \E k \in 1..Len(calls) :
        /\ calls[k].result.valid = FALSE
        /\ "blocking" \in DOMAIN calls[k].result
        /\ calls[k].result.blocking = TRUE

\* C1: a handleNextPage whose validatePage returned a result with valid=false
\* and blocking=true leaves currentPageIndex unchanged; one whose validatePage
\* returned no such result (warnings included), on a page that is not the
\* last, advances currentPageIndex by exactly one
NextGate ==
    /\ \A d \in Returned("next") :
          /\ BlockingIn(d.calls) => d.indexAfter = d.indexBefore
          /\ (~BlockingIn(d.calls) /\ d.page < Len(schema.pages) - 1)
                => d.indexAfter = d.indexBefore + 1
    /\ ("done" \in DOMAIN lastOp /\ lastOp.done # <<>>
            /\ lastOp.done[Len(lastOp.done)].kind = "next")
          => currentPageIndex = lastOp.done[Len(lastOp.done)].indexAfter

\* a next() went through although validatePage returned a warning
NextPastWarningWitness ==
    \E d \in Returned("next") :
        /\ \E k \in 1..Len(d.calls) : ~d.calls[k].result.valid
        /\ ~BlockingIn(d.calls)
        /\ d.indexAfter = d.indexBefore + 1
        /\ currentPageIndex = d.indexAfter

\* C2: handleSubmit invokes onSubmit only when neither validateAll nor
\* validateCrossField returned a result with valid=false and blocking=true,
\* and what it passes is the form's values as they are when it is invoked
SubmitGate ==
    \A d \in Returned("submit") :
        /\ Len(d.onSubmit) <= 1
        /\ d.onSubmit # <<>> =>
              /\ ~BlockingIn(d.calls)
              /\ d.crossRan
              /\ \A f \in DOMAIN d.cross :
                    ~(d.cross[f].valid = FALSE /\ d.cross[f].blocking = TRUE)
              /\ d.onSubmit[1] = values

\* C7: a validation result whose input value differs from the field's current
\* value is discarded: no next() or submit() decides on such a result
StaleResultDiscarded ==
    \A d \in Returned("next") \cup Returned("submit") :
        \A k \in 1..Len(d.calls) :
            d.calls[k].value = Get(values, d.calls[k].field)

\* C8: a rejected validateAsync is converted for every caller awaiting it:
\* no handler ends in an unhandled rejection
AsyncFailureConverted ==
    "rejected" \in DOMAIN lastOp => lastOp.rejected = {}

Hidden(fieldId, vals) ==
    /\ fieldId \in DOMAIN fieldMap
    /\ "showIf" \in DOMAIN fieldMap[fieldId]
    /\ ~ApplyShowIf(fieldMap[fieldId].showIf, vals)

\* C10: a field whose showIf is false against the form's values, both when the
\* gate ran and now, contributes no blocking result to the validatePage gate
\* of next() nor to the validateAll gate of submit()
HiddenFieldsExcluded ==
    \A d \in Returned("next") \cup Returned("submit") :
        \A k \in 1..Len(d.calls) :
            (Hidden(d.calls[k].field, d.allValues) /\ Hidden(d.calls[k].field, values))
                => ~(d.calls[k].result.valid = FALSE
                     /\ "blocking" \in DOMAIN d.calls[k].result
                     /\ d.calls[k].result.blocking = TRUE)

-----------------------------------------------------------------------------
(* Claims about the suggestion functions (SpecSuggest) *)

\* the operation that ran last is `op`, on a field that has a suggestion state
Ran(op) ==
    /\ "trail" \in DOMAIN lastOp
    /\ lastOp.op = op
    /\ "fieldId" \in DOMAIN lastOp
    /\ lastOp.fieldId \in DOMAIN suggestions

\* C11: after acceptSuggestion(f) on a field with a stored suggestion state,
\* values[f] is the suggestion's suggestedValue, f is in aiAssistedFields,
\* f is dirty exactly when its value differs from the initial one, and the
\* suggestion has activeValue = suggested and status = accepted
AcceptSuggestionApplies ==
    Ran("acceptSuggestion") =>
        LET f == lastOp.fieldId
        IN /\ Get(values, f) = suggestions[f].suggestedValue
           /\ f \in aiAssistedFields
           /\ f \in dirtyFields <=> Get(values, f) # Get(initialValues, f)
           /\ suggestions[f].activeValue = "suggested"
           /\ suggestions[f].status = "accepted"

\* C11, amended: as above, but f is in aiAssistedFields when the suggested
\* value differs from the value the field held; when they are equal the
\* write is a no-op and aiAssistedFields is what it was
AcceptSuggestionAppliesOnChange ==
    Ran("acceptSuggestion") =>
        LET f == lastOp.fieldId
        IN /\ Get(values, f) = suggestions[f].suggestedValue
           /\ lastOp.oldValue # suggestions[f].suggestedValue
                 => f \in aiAssistedFields
           /\ f \in dirtyFields <=> Get(values, f) # Get(initialValues, f)
           /\ suggestions[f].activeValue = "suggested"
           /\ suggestions[f].status = "accepted"

\* an accept that changed the field's value
AcceptChangedValueWitness ==
    /\ Ran("acceptSuggestion")
    /\ lastOp.oldValue # suggestions[lastOp.fieldId].suggestedValue
    /\ Get(values, lastOp.fieldId) = suggestions[lastOp.fieldId].suggestedValue
    /\ lastOp.fieldId \in aiAssistedFields
    /\ lastOp.fieldId \in dirtyFields

\* C12: after acceptSuggestion(f), toggleValue(f) the field holds userValue,
\* and after a second toggleValue(f) the suggestion is active again and the
\* field holds the suggested value
DualValueRoundTrip ==
    /\ (Ran("toggleValue") /\ Len(lastOp.trail) >= 2
            /\ lastOp.trail[Len(lastOp.trail) - 1] = "acceptSuggestion")
          => /\ suggestions[lastOp.fieldId].activeValue = "user"
             /\ Get(values, lastOp.fieldId) = suggestions[lastOp.fieldId].userValue
    /\ (Ran("toggleValue")
            /\ lastOp.trail = <<"acceptSuggestion", "toggleValue", "toggleValue">>)
          => /\ suggestions[lastOp.fieldId].activeValue = "suggested"
             /\ Get(values, lastOp.fieldId) = suggestions[lastOp.fieldId].suggestedValue

\* accept, toggle, toggle on a suggestion that differs from what the user typed
RoundTripWitness ==
    /\ Ran("toggleValue")
    /\ lastOp.trail = <<"acceptSuggestion", "toggleValue", "toggleValue">>
    /\ suggestions[lastOp.fieldId].userValue # suggestions[lastOp.fieldId].suggestedValue
    /\ suggestions[lastOp.fieldId].userValue # Undefined
    /\ Get(values, lastOp.fieldId) = suggestions[lastOp.fieldId].suggestedValue

\* C13: after a user-sourced setValue(f, v) made while the user value is the
\* active one, the suggestion's userValue is v
UserValueIsWhatWasTyped ==
    (Ran("setValue") /\ lastOp.source = "user"
        /\ suggestions[lastOp.fieldId].activeValue = "user")
      => suggestions[lastOp.fieldId].userValue = lastOp.value

\* C14: after a user-sourced setValue(f, v) to a different value made while
\* the suggested value is the active one, suggestedValueModified is true
SuggestedEditIsFlagged ==
    (Ran("setValue") /\ lastOp.source = "user"
        /\ lastOp.value # lastOp.oldValue
        /\ suggestions[lastOp.fieldId].activeValue = "suggested")
      => suggestions[lastOp.fieldId].suggestedValueModified

SuggestionOps ==
    {"acceptSuggestion", "dismissSuggestion", "toggleValue", "markAsReviewed",
     "resetToOriginalSuggestion", "setValue"}

\* C15: acceptSuggestion, dismissSuggestion, toggleValue, markAsReviewed,
\* resetToOriginalSuggestion and setValue leave originalSuggestedValue as it
\* was; resetToOriginalSuggestion(f) sets suggestedValue to it, clears
\* suggestedValueModified and, when the suggested value is active, writes it
\* to values[f]
OriginalSuggestionPreserved ==
    [][("trail" \in DOMAIN lastOp' /\ lastOp'.op \in SuggestionOps) =>
          /\ \A f \in DOMAIN suggestions :
                /\ f \in DOMAIN suggestions'
                /\ suggestions'[f].originalSuggestedValue
                      = suggestions[f].originalSuggestedValue
          /\ (lastOp'.op = "resetToOriginalSuggestion"
                 /\ lastOp'.fieldId \in DOMAIN suggestions)
                => LET f == lastOp'.fieldId
                   IN /\ suggestions'[f].suggestedValue
                            = suggestions[f].originalSuggestedValue
                      /\ ~suggestions'[f].suggestedValueModified
                      /\ suggestions[f].activeValue = "suggested"
                            => Get(values', f) = suggestions[f].originalSuggestedValue
      ]_vars

\* a reset right after the user overwrote the active suggested value
ResetRestoresWitness ==
    /\ Ran("resetToOriginalSuggestion")
    /\ Len(lastOp.trail) >= 2
    /\ lastOp.trail[Len(lastOp.trail) - 1] = "setValue"
    /\ lastOp.oldValue # suggestions[lastOp.fieldId].originalSuggestedValue
    /\ suggestions[lastOp.fieldId].activeValue = "suggested"
    /\ Get(values, lastOp.fieldId) = suggestions[lastOp.fieldId].originalSuggestedValue

\* C18: after the periodic sweep no stored suggestion state is expired
ExpirySweepClears ==
    ("trail" \in DOMAIN lastOp /\ lastOp.op = "sweep") =>
        \A f \in DOMAIN suggestions : ~isSuggestionExpired(suggestions[f])

-----------------------------------------------------------------------------
(* Claims about the suggestion requests (SpecRequest) *)

\* C16: onSuggest is invoked for a field only when the field declares a
\* suggest specification, its value is non-empty, no suggestion for it is
\* loading or expecting, and a suggestion it has is expired
RequestsAreGated ==
    "invoked" \in DOMAIN lastOp =>
        \A k \in 1..Len(lastOp.invoked) :
            LET fieldId == lastOp.invoked[k].fieldId
            IN /\ declaresSuggest(fieldId)
               /\ ~isEmpty(lastOp.invoked[k].currentValue)
               /\ hasSuggestion(Store, fieldId)
                     => /\ suggestions[fieldId].status \notin {"loading", "expecting"}
                        /\ isSuggestionExpired(suggestions[fieldId])

belowThreshold(fieldId, result) ==
    /\ "confidence" \in DOMAIN result
    /\ result.confidence < minConfidence(fieldMap[fieldId])

\* C17: requestSuggestion returns null for a result whose confidence is
\* below the field's minConfidence, applySuggestionResult is never given
\* such a result, and no stored available suggestion has such a confidence
ConfidenceGate ==
    /\ "returned" \in DOMAIN lastOp =>
          /\ \A k \in 1..Len(lastOp.returned) :
                belowThreshold(lastOp.returned[k].field, lastOp.returned[k].outcome)
                   => lastOp.returned[k].result = Null
          /\ \A k \in 1..Len(lastOp.applied) :
                ~belowThreshold(lastOp.applied[k].fieldId, lastOp.applied[k].result)
    /\ \A f \in DOMAIN suggestions :
          suggestions[f].status = "available"
             => suggestions[f].confidence >= minConfidence(fieldMap[f])

-----------------------------------------------------------------------------
(* Claims about the background job (SpecJob) *)

\* C19: right after startBulkSuggest received a job descriptor, the
\* suggestion status of every field in its affectedFields is expecting
JobStartMarksExpecting ==
    ("affectedFields" \in DOMAIN lastOp /\ lastOp.op = "bulkResponse") =>
        \A f \in Range(lastOp.affectedFields) :
            /\ hasSuggestion(Store, f)
            /\ getSuggestionState(Store, f).status = "expecting"

\* C20: after a poll that reported a terminal status, every field of the
\* job that was expecting is available if the job completed, none with the
\* job's error for it if the job failed, and in no case still expecting
TerminalPollResolvesExpecting ==
    ("wasExpecting" \in DOMAIN lastOp /\ lastOp.op = "poll") =>
        \A f \in lastOp.wasExpecting :
            /\ suggestions[f].status # "expecting"
            /\ lastOp.report.status = "completed"
                  => suggestions[f].status = "available"
            /\ lastOp.report.status = "failed"
                  => /\ suggestions[f].status = "none"
                     /\ f \in DOMAIN lastOp.report.errors
                           => /\ "error" \in DOMAIN suggestions[f]
                              /\ suggestions[f].error = lastOp.report.errors[f]

\* C21: after a poll returned completed, failed or cancelled, the poll timer
\* is cleared and isBlocking is false, and no step calls onJobProgress for a
\* job whose terminal poll was processed
TerminalPollStopsPolling ==
    /\ ("terminalJob" \in DOMAIN lastOp /\ lastOp.op = "poll") =>
          /\ pollTimer = "none"
          /\ ~isBlocking
    /\ "late" \in DOMAIN lastOp => lastOp.late = {}

\* C22: when cancelJob has returned, polling is stopped and isBlocking is
\* false, whether the promise of onJobCancel resolved or rejected
CancelAlwaysUnblocks ==
    lastOp.op = "cancelResponse" =>
        /\ pollTimer = "none"
        /\ ~isBlocking

\* the current job was cancelled here
JobCancelled ==
    /\ currentJob # NoJob
    /\ currentJob.status = "cancelled"
    /\ currentJob.jobId \in JobLog.cancelled

\* C23: once the current job is cancelled, a poll that fires or resolves
\* afterwards leaves currentJob, isBlocking and the fields' suggestion
\* states as they are
CancellationIsFinal ==
    [][(JobCancelled /\ lastOp'.op \in {"tick", "poll"}) =>
           UNCHANGED <<currentJob, isBlocking, suggestions>>]_vars

\* C24: with an initialJobId, resumeJob fetches the job's status once; when
\* the fetch has resolved, the poll timer runs (and isBlocking is set in a
\* blocking host) if the fetched status is queued or processing, and there
\* is no poll timer otherwise
ResumeFetchesOnce ==
    /\ JobLog.resumes <= 1
    /\ (lastOp.op = "resumeResponse" /\ ~IsRejection(lastOp.report)) =>
          IF lastOp.report.status \in ActiveStatuses
          THEN /\ pollTimer = lastOp.jobId
               /\ props.blocking => isBlocking
          ELSE pollTimer = "none"

-----------------------------------------------------------------------------
(* Claims about draft saving (SpecDraft) *)

\* C25: a tick of the auto-save timer calls onSaveDraft only when the form
\* is dirty; when the promise resolves the store is marked clean: the
\* checkpoint is the current values and isDraftSaved is true; when it
\* rejects the checkpoint and isDraftSaved stay as they were
AutoSaveMarksClean ==
    [][/\ saveCalls' > saveCalls => dirtyFields # {}
       /\ lastOp'.op = "saveResolved" =>
             /\ lastSaved'.saved
             /\ lastSaved'.values = values'
       /\ lastOp'.op = "saveRejected" => UNCHANGED storeVars]_vars

\* a save resolved while the form is dirty and its values are not the
\* initial ones
AutoSaveWitness ==
    /\ lastOp.op = "saveResolved"
    /\ dirtyFields # {}
    /\ values # initialValues
    /\ isDraftSaved(Store)
    /\ lastSaved.values = values

\* the names whose current value is not the one of the last checkpoint, or
\* the initial one when no checkpoint was taken
changedSinceCheckpoint ==
    {f \in DOMAIN values \cup DOMAIN baseValues(Store) :
        Get(values, f) # Get(baseValues(Store), f)}

\* C26: getChanges reports exactly the fields whose value differs from the
\* last markClean checkpoint (the initial values before the first one), it
\* reports nothing right after markClean, and hasUnsavedChanges is true
\* exactly when some value changed since the last draft save
ChangesSinceCheckpoint ==
    /\ {c.fieldId : c \in getChanges(Store)} = changedSinceCheckpoint
    /\ lastOp.op \in {"markClean", "saveResolved"} => getChanges(Store) = {}
    /\ hasUnsavedChanges(Store) <=> changedSinceCheckpoint # {}

\* C27: after reset the values are the initial values, the dirty set is
\* empty, there are no suggestion states and no validation results, the
\* history is empty with historyIndex = -1, and canUndo and canRedo are false
ResetRestoresInitialState ==
    lastOp.op = "reset" =>
        /\ values = initialValues
        /\ dirtyFields = {}
        /\ suggestions = EmptyMap
        /\ validations = EmptyMap
        /\ history = <<>>
        /\ historyIndex = -1
        /\ ~canUndo(Store)
        /\ ~canRedo(Store)

\* reset ran on a store with a dirty field, a suggestion state, a validation
\* result and a history entry, after a draft save
ResetWitness ==
    /\ lastOp.op = "reset"
    /\ lastOp.cleared.dirtyFields # {}
    /\ lastOp.cleared.suggestions # {}
    /\ lastOp.cleared.validations # {}
    /\ lastOp.cleared.entries > 0
    /\ lastSaved.saved
    /\ initialValues # EmptyMap

\* C30: undo and redo change nothing but historyIndex; historyIndex stays
\* between -1 and the last index of the history; canUndo holds exactly when
\* historyIndex >= 0 and canRedo exactly when it is below the last index;
\* an undo made when canUndo held is taken back by the redo that follows
UndoRedoMoveOnlyTheCursor ==
    /\ [][lastOp'.op \in {"undo", "redo"} =>
              /\ UNCHANGED <<values, initialValues, dirtyFields, suggestions,
                             validations, history, lastSaved>>
              /\ (lastOp'.op = "undo" /\ canUndo(Store)) =>
                    /\ historyIndex' = historyIndex - 1
                    /\ redo([Store EXCEPT !.historyIndex = historyIndex']).historyIndex
                          = historyIndex]_vars
    /\ [](/\ -1 <= historyIndex
          /\ historyIndex <= Len(history) - 1
          /\ canUndo(Store) <=> historyIndex >= 0
          /\ canRedo(Store) <=> historyIndex < Len(history) - 1)

\* an undo moved the cursor off the newest of two entries, with a dirty
\* field, a suggestion state and a validation result in the store
UndoWitness ==
    /\ lastOp.op = "undo"
    /\ Len(history) = 2
    /\ historyIndex = 0
    /\ canUndo(Store)
    /\ canRedo(Store)
    /\ dirtyFields # {}
    /\ suggestions # EmptyMap
    /\ validations # EmptyMap

-----------------------------------------------------------------------------
(* Further claims about the store (SpecStore) *)

\* the store operations that take a field name
FieldOps ==
    {"setValue", "acceptSuggestion", "dismissSuggestion", "toggleValue",
     "markAsReviewed", "resetToOriginalSuggestion"}

\* C28: an operation on a name that is not a field of the schema leaves the
\* store as it is, and every key of the values is the name of a field of
\* the schema
UnknownFieldsAreNoOps ==
    /\ [][(lastOp'.op \in FieldOps /\ lastOp'.fieldId \notin FieldNames) =>
              UNCHANGED storeVars]_vars
    /\ [](DOMAIN values \subseteq FieldNames)

-----------------------------------------------------------------------------
(* Further claims about the Renderer (Spec) *)

\* C29: whatever the interleaving of next() and previous(), a second next()
\* while an earlier one awaits validatePage included, currentPageIndex stays
\* between 0 and the last page index, and a next() that advances leaves the
\* page whose validation it awaited
PageIndexStaysInRange ==
    /\ 0 <= currentPageIndex
    /\ currentPageIndex <= LastPageIndex
    /\ \A d \in Returned("next") :
          d.indexAfter # d.indexBefore => d.page = d.indexBefore

-----------------------------------------------------------------------------
(* Further claims about the pure validation functions (SpecValidate) *)

\* Number(s) of a string of decimal digits
RECURSIVE NumberOf(_)
NumberOf(s) ==
    IF s = <<>> THEN 0
    ELSE 10 * NumberOf(SubSeq(s, 1, Len(s) - 1)) + (CharCode(s[Len(s)]) - 48)

\* the probe validates what the default input stores for typed digits, and
\* the number typed is outside the field's min..max
TypedOutOfRange ==
    /\ probe.fn = "runSyncValidation"
    /\ "validation" \in DOMAIN probe.field
    /\ probe.value.t = "string"
    /\ probe.value.s # <<>>
    /\ probe.value = inputValue(probe.value.s)
    /\ AllIn(probe.value.s, 1, Len(probe.value.s), Digits)
    /\ \/ /\ "min" \in DOMAIN probe.field.validation
          /\ NumberOf(probe.value.s) < probe.field.validation.min
       \/ /\ "max" \in DOMAIN probe.field.validation
          /\ NumberOf(probe.value.s) > probe.field.validation.max

\* C31: for a field with min or max, a number typed into the default input
\* that is outside the range gets a blocking error, which is what keeps
\* next() on the page
NumericRangeGate ==
    (TypedOutOfRange /\ ret # NoProbe) =>
        /\ ~ret.result.valid
        /\ hasBlockingErrors(<<[result |-> ret.result]>>)

\* the pages of a probed schema that has a pages array
probedPages == probe.schema.pages.array

\* the fields of the probed pages that have a fields array
probedFields ==
    UNION {Range(probedPages[k].fields.array) :
              k \in {j \in 1..Len(probedPages) :
                        /\ "fields" \in DOMAIN probedPages[j]
                        /\ isArray(probedPages[j].fields)}}

hasPagesArray ==
    "pages" \in DOMAIN probe.schema /\ isArray(probe.schema.pages)

\* what the claim counts as an error of the probed schema
structuralError ==
    IF ~hasPagesArray THEN TRUE
    ELSE \/ \E k \in 1..Len(probedPages) :
               "fields" \notin DOMAIN probedPages[k] \/ ~isArray(probedPages[k].fields)
         \/ \E f \in probedFields :
               \/ "type" \notin DOMAIN f \/ f.type = ""
               \/ "name" \notin DOMAIN f \/ f.name = ""

unsupportedTypes ==
    IF ~hasPagesArray THEN {}
    ELSE {f.type : f \in {g \in probedFields : "type" \in DOMAIN g /\ g.type # ""}}
            \ SUPPORTED_FIELD_TYPES

\* C32: validateSchema returns valid = false exactly when it records an
\* error, which it does exactly for a schema without a pages array, a page
\* without a fields array, or a field without a type or a name; a missing
\* or unsupported version and unsupported field types only add warnings,
\* and unknownFieldTypes lists each unsupported type once
SchemaValidity ==
    (probe.fn = "validateSchema" /\ ret # NoProbe) =>
        LET result == ret.result
        IN /\ result.valid <=> result.errors = <<>>
           /\ result.errors # <<>> <=> structuralError
           /\ Range(result.unknownFieldTypes) = unsupportedTypes
           /\ Len(result.unknownFieldTypes) = Cardinality(unsupportedTypes)
           /\ ("version" \notin DOMAIN probe.schema
                  \/ probe.schema.version \notin SUPPORTED_VERSIONS)
                 => result.warnings # <<>>
           /\ unsupportedTypes # {} => result.warnings # <<>>

\* a schema of an unsupported version with a field of the same unsupported
\* type on each of its two pages is valid, with two warnings and the type
\* listed once
SchemaWarningsWitness ==
    /\ probe.fn = "validateSchema"
    /\ ret # NoProbe
    /\ "version" \in DOMAIN probe.schema
    /\ probe.schema.version = "2.0"
    /\ ret.result.valid
    /\ ret.result.unknownFieldTypes = <<"PHONE">>
    /\ Len(ret.result.warnings) = 2
    /\ Len(probedPages) = 2
    /\ \A k \in 1..2 :
          \E f \in Range(probedPages[k].fields.array) : f.type = "PHONE"

-----------------------------------------------------------------------------
(* Further claims about the mounted Renderer (Spec) *)

\* the debounce timer that fires in a "timer" step: the oldest one
FiringTimer ==
    tasks[CHOOSE k \in 1..Len(tasks) :
             /\ tasks[k].kind = "timer"
             /\ \A j \in 1..(k - 1) : tasks[j].kind # "timer"]

\* the field declares validateAsync and the value passes its synchronous checks
ReachesAsync(fieldId, value) ==
    /\ "validation" \in DOMAIN fieldMap[fieldId]
    /\ "validateAsync" \in DOMAIN fieldMap[fieldId].validation
    /\ runSyncValidation(fieldMap[fieldId], value, values).valid

\* the step calls validateField(fieldId): the debounce timer of the field
\* fires, or that of a field it depends on whose own validation needs no
\* validateAsync, or Next or Submit is pressed
Validates(fieldId) ==
    \/ /\ lastOp'.op = "timer"
       /\ \/ FiringTimer.field = fieldId
          \/ /\ fieldId \in Range(dependentFields(FiringTimer.field))
             /\ ~ReachesAsync(FiringTimer.field, FiringTimer.value)
    \/ /\ lastOp'.op = "next"
       /\ fieldId \in Range(NamesOf(pageFields(currentPage.id)))
    \/ lastOp'.op = "submit"

\* C33: a validateField call for a value whose result a resolved validateAsync
\* has put into the cache does not invoke validateAsync again while the entry
\* is within its ttl, and invokes it again once the ttl has elapsed
CacheCorrectness ==
    [][\A key \in DOMAIN cache :
          (Validates("email") /\ key = cacheKey("email", Get(values, "email")))
              => IF cache[key].expired
                 THEN key \in lastOp'.invoked /\ key \in pending'
                 ELSE key \notin lastOp'.invoked /\ key \notin pending']_vars

\* Next was pressed and the check of the email came out of the cache: nothing
\* was invoked and the gate decided on the cached result
CacheHitWitness ==
    /\ lastOp.op = "next"
    /\ lastOp.invoked = {}
    /\ pending = {}
    /\ \E d \in Returned("next") :
          \E k \in 1..Len(d.calls) :
             /\ d.calls[k].field = "email"
             /\ cacheKey("email", d.calls[k].value) \in DOMAIN cache
             /\ ~cache[cacheKey("email", d.calls[k].value)].expired
             /\ d.calls[k].result = cache[cacheKey("email", d.calls[k].value)].result

\* the results the gates that returned in the last step got for `key`
gateResults(key) ==
    UNION {{d.calls[k].result :
               k \in {j \in 1..Len(d.calls) :
                         cacheKey(d.calls[j].field, d.calls[j].value) = key}} :
           d \in Returned("next") \cup Returned("submit")}

\* C34: while a validateAsync call for a (field, value) pair is in flight, no
\* step issues another one for the pair; when it settles the pending entry
\* is removed and every validateField call that awaited it, the coalesced
\* ones too, resolves with the one normalised result
InFlightCoalescing ==
    [][/\ lastOp'.invoked \cap pending = {}
       /\ lastOp'.op = "settle" =>
             \A key \in pending \ pending' :
                /\ Cardinality(gateResults(key)') <= 1
                /\ \A k \in 1..Len(tasks) :
                      AwaitsAs(tasks[k], key, "waiter") =>
                         /\ lastOp'.rejected = {}
                         /\ \A j \in 1..Len(tasks') : ~Awaits(tasks'[j], key)]_vars

\* C35: when the handleFieldChange of a field reaches its dependent fields,
\* a dependent's result that was in the cache before the field changed is
\* not returned: the revalidation invokes the dependent's validateAsync
DependencyCascade ==
    [][\A d \in Returned("change")' :
          \A k \in 1..Len(d.dependents) :
             LET key == cacheKey(d.dependents[k].field, d.dependents[k].value)
             IN (key \in d.cachedAtChange /\ key \in FreshKeys)
                   => key \in lastOp'.invoked]_vars

TimersOf(fieldId) == {k \in 1..Len(tasks) : IsTimerOf(tasks[k], fieldId)}

\* C38: validateFieldDebounced calls for one field that each come before the
\* previous delay has elapsed leave one timer, that of the last call, so one
\* validateField runs; it reads the value of the last call, and the result
\* its validateAsync resolves with is cached under that value
DebounceCollapse ==
    /\ [](\A f \in FieldNames : Cardinality(TimersOf(f)) <= 1)
    /\ [][/\ lastOp'.op = "change" =>
                \A f \in FieldNames :
                   Get(values', f) # Get(values, f) =>
                      /\ Cardinality(TimersOf(f)') = 1
                      /\ \A k \in TimersOf(f)' : tasks'[k].value = Get(values', f)
          /\ lastOp'.op = "timer" =>
                \A f \in {FiringTimer.field} :
                   LET key == cacheKey(f, FiringTimer.value)
                   IN /\ Get(values, f) = FiringTimer.value
                      /\ TimersOf(f)' = {}
                      /\ ReachesAsync(f, FiringTimer.value) =>
                            \/ key \in FreshKeys /\ key \notin lastOp'.invoked
                            \/ key \in pending'
          /\ \A d \in Returned("validateAsync")' :
                ~IsRejection(d.outcome) =>
                   /\ d.key \in FreshKeys'
                   /\ cache'[d.key].result = normalizeResult(d.outcome)]_vars

\* three edits of the email came before any delay had elapsed; the one timer
\* fired and validateAsync was invoked for the value typed last
DebounceWitness ==
    /\ lastOp.op = "timer"
    /\ lastOp.invoked = {cacheKey("email", memberEmail)}
    /\ pending = lastOp.invoked
    /\ cache = EmptyMap
    /\ Get(values, "email") = memberEmail
    /\ Len(tasks) = 1
    /\ tasks[1].kind = "debounced"
    /\ tasks[1].allValues = [email |-> emptyString]

\* C39: every promise validateFieldDebounced returned resolves, a superseded
\* one too: no handleFieldChange is left awaiting a promise that nothing will
\* resolve, short of its suggestion step and its dependent cascade
DebouncedPromisesResolve == hungChanges = {}

-----------------------------------------------------------------------------
(* Further claims about the store (SpecStore) *)

\* C37: a write appends its history entry after dropping the entries beyond
\* the cursor, then drops the oldest entry if there are more than
\* maxHistorySize, and leaves the cursor on the last entry, so that canRedo
\* is false right after it; history never holds more than maxHistorySize
\* entries
HistoryDiscipline ==
    /\ [](Len(history) <= maxHistorySize)
    /\ [][lastOp'.op = "setValue" =>
             LET kept == SubSeq(history, 1, historyIndex + 1)
                 pushed == Append(kept, FieldEdit(lastOp'.fieldId))
             IN /\ history' = IF Len(pushed) > maxHistorySize
                              THEN SubSeq(pushed, 2, Len(pushed))
                              ELSE pushed
                /\ historyIndex' = Len(history') - 1
                /\ ~(historyIndex' < Len(history') - 1)]_vars

\* a write into a history of two different entries that is full: its last
\* entry is the one of this write, the cursor is on it, and there is
\* something to undo and nothing to redo
HistoryWitness ==
    /\ lastOp.op = "setValue"
    /\ maxHistorySize = MaxHistorySize
    /\ Len(history) = maxHistorySize
    /\ history[Len(history)] = FieldEdit(lastOp.fieldId)
    /\ \E k \in 1..(Len(history) - 1) : history[k] # history[Len(history)]
    /\ historyIndex = Len(history) - 1
    /\ ~canRedo(Store)
    /\ canUndo(Store)

-----------------------------------------------------------------------------
(* Further claims about useBackgroundJob (SpecJob) *)

\* C36: across all the polls of a job, overlapping ones and one whose
\* response arrives after a terminal poll was processed included, an update
\* identified by (jobId, fieldId, timestamp) passes the guard and is applied
\* at most once
UpdatesAppliedOnce ==
    [][lastOp'.processedNow \cap JobLog.applied = {}]_vars

\* C40: once currentJob holds a terminal status, no later event puts a
\* status that is not terminal back on that job
StatusNeverRegresses ==
    [][(/\ currentJob # NoJob
        /\ currentJob.status \in TerminalStatuses
        /\ currentJob' # NoJob
        /\ currentJob'.jobId = currentJob.jobId)
          => currentJob'.status \in TerminalStatuses]_vars

=============================================================================
